---- MODULE Spec2Model ----
(***************************************************************************)
(* A model of the DataPortal-Metadata harvester: the path resolver         *)
(* (get_value), the controlled-vocabulary normalizer, the codelist         *)
(* registry and the XML builder (build_xml and the steps it calls).        *)
(*                                                                         *)
(* Text is modelled as a sequence of tokens.  A token is one character     *)
(* ("O", "n", " ", ";", "#", ".", "-", a digit) or an opaque run of        *)
(* characters that none of the modelled string operations looks into (a    *)
(* calendar date, a clock time, the address part of a URL, an identifier). *)
(* Python values are records of one shape, [k, n, s, ks, xs]: k is the     *)
(* type, n the number, s the text, xs the items of a list or the values of *)
(* a dict, ks the keys of a dict (in insertion order).                     *)
(***************************************************************************)
EXTENDS Integers, Sequences, FiniteSets, TLC

VARIABLES pc, args, ret, frame

vars == <<pc, args, ret, frame>>

---------------------------------------------------------------------------
(* Python values *)

None == [k |-> "none", n |-> 0, s |-> <<>>, ks |-> <<>>, xs |-> <<>>]
Str(t) == [k |-> "str", n |-> 0, s |-> t, ks |-> <<>>, xs |-> <<>>]
Num(i) == [k |-> "num", n |-> i, s |-> <<>>, ks |-> <<>>, xs |-> <<>>]
List(items) == [k |-> "list", n |-> 0, s |-> <<>>, ks |-> <<>>, xs |-> items]
Dict(keys, vals) == [k |-> "dict", n |-> 0, s |-> <<>>, ks |-> keys, xs |-> vals]

\* The outcome of a Python expression or call: a value, or an exception.
Ret(v) == [exc |-> "", val |-> v]
Raise(e) == [exc |-> e, val |-> None]

\* bool(v): None, "", 0, [] and {} are falsy.
Truthy(v) ==
  CASE v.k = "none" -> FALSE
    [] v.k = "str" -> v.s # <<>>
    [] v.k = "num" -> v.n # 0
    [] v.k = "list" -> v.xs # <<>>
    [] v.k = "dict" -> v.ks # <<>>
    [] OTHER -> TRUE

\* v in (None, "", [])
InAbsent(v) ==
  \/ v.k = "none"
  \/ v.k = "str" /\ v.s = <<>>
  \/ v.k = "list" /\ v.xs = <<>>

\* No document: an element without a name.
NoTree ==
  [tag |-> [ns |-> "", l |-> <<>>], text |-> <<>>,
   att |-> [codeList |-> <<>>, codeListValue |-> <<>>, nilReason |-> <<>>,
            locale |-> <<>>],
   kids |-> <<>>]

\* The frame of build_xml while build_xml does not run.
NoFrame ==
  [lang |-> "", tree |-> NoTree, pos |-> 0, prev |-> NoTree, value |-> None,
   secondary |-> None]

---------------------------------------------------------------------------
(* Python text operations *)

Digits == <<"0", "1", "2", "3", "4", "5", "6", "7", "8", "9">>

IsDigit(c) == \E i \in 1..Len(Digits) : Digits[i] = c

DigitVal(c) == (CHOOSE i \in 1..Len(Digits) : Digits[i] = c) - 1

IsSpace(c) == c = " "

RECURSIVE LStrip(_)
LStrip(t) == IF t # <<>> /\ IsSpace(Head(t)) THEN LStrip(Tail(t)) ELSE t

RECURSIVE RStrip(_)
RStrip(t) ==
  IF t # <<>> /\ IsSpace(t[Len(t)]) THEN RStrip(SubSeq(t, 1, Len(t) - 1)) ELSE t

\* str.strip()
Strip(t) == RStrip(LStrip(t))

\* The position of the first sep in t, or 0.
IndexOf(t, sep) ==
  IF \E i \in 1..Len(t) : t[i] = sep
  THEN CHOOSE i \in 1..Len(t) : t[i] = sep /\ \A j \in 1..(i - 1) : t[j] # sep
  ELSE 0

\* str.split(sep) for a one-character sep: always at least one part.
RECURSIVE Split(_, _)
Split(t, sep) ==
  LET i == IndexOf(t, sep) IN
    IF i = 0 THEN <<t>>
    ELSE <<SubSeq(t, 1, i - 1)>> \o Split(SubSeq(t, i + 1, Len(t)), sep)

RECURSIVE DigitsValue(_, _)
DigitsValue(t, acc) ==
  IF t = <<>> THEN acc ELSE DigitsValue(Tail(t), 10 * acc + DigitVal(Head(t)))

\* int(text): surrounding whitespace is ignored, then an optional sign, then
\* one or more digits; anything else is a ValueError.
PyInt(t) ==
  LET u == Strip(t)
      signed == u # <<>> /\ Head(u) \in {"-", "+"}
      d == IF signed THEN Tail(u) ELSE u
  IN IF d # <<>> /\ \A i \in 1..Len(d) : IsDigit(d[i])
     THEN Ret(Num(IF signed /\ Head(u) = "-" THEN 0 - DigitsValue(d, 0)
                  ELSE DigitsValue(d, 0)))
     ELSE Raise("ValueError")

---------------------------------------------------------------------------
(* get_value: xml_builder.py *)

\* value[idx] on a list
ListItem(value, idx) ==
  LET len == Len(value.xs) IN
    IF 0 <= idx /\ idx < len THEN Ret(value.xs[idx + 1])
    ELSE IF idx < 0 /\ 0 - len <= idx THEN Ret(value.xs[len + idx + 1])
    ELSE Raise("IndexError")

\* value[part] on anything that is not a list, part a str
Subscript(value, part) ==
  IF value.k = "dict"
  THEN IF \E i \in 1..Len(value.ks) : value.ks[i] = part
       THEN Ret(value.xs[CHOOSE i \in 1..Len(value.ks) : value.ks[i] = part])
       ELSE Raise("KeyError")
  ELSE Raise("TypeError")

\* The exceptions the two try blocks of get_value catch.
ListCaught == {"ValueError", "IndexError"}

\* (a handler that forgets TypeError)
DictCaughtKeyOnly == {"KeyError"}

DictCaught == {"KeyError", "TypeError"}

\* The body of the for loop, one part after the other.
RECURSIVE GetValueLoop(_, _, _)
GetValueLoop(value, parts, default) ==
  IF parts = <<>> THEN Ret(value)
  ELSE
    LET part == Head(parts) IN
      IF value.k = "list"
      THEN LET idx == PyInt(part)
               item == IF idx.exc = "" THEN ListItem(value, idx.val.n) ELSE idx
           IN IF item.exc = "" THEN GetValueLoop(item.val, Tail(parts), default)
              ELSE IF item.exc \in ListCaught THEN Ret(default)
              ELSE item
      ELSE LET item == Subscript(value, part)
           IN IF item.exc = "" THEN GetValueLoop(item.val, Tail(parts), default)
              ELSE IF item.exc \in DictCaught THEN Ret(default)
              ELSE item

\* get_value(record, source, default): source is None or a str.
get_value(record, source, default) ==
  IF ~Truthy(source) THEN Ret(default)
  ELSE GetValueLoop(record, Split(source.s, "."), default)

---------------------------------------------------------------------------
(* The calls of get_value that are checked: SpecGet *)

\* The longest path, in segments.
MaxSegs == 3

T1(a) == <<a>>

\* The segments a path is made of: keys, indexes in and out of range, a
\* negative index, an index with a blank, a word, and the empty segment.
SegPool ==
  {T1("f"), T1("i"), T1("n"), T1("0"), T1("1"), T1("7"), <<"-", "1">>,
   <<"-", "9">>, <<" ", "0">>, T1("x"), <<>>}

SegSeqs == UNION {[1..n -> SegPool] : n \in 1..MaxSegs}

\* ".".join(segs)
RECURSIVE Join(_, _)
Join(segs, sep) ==
  IF Len(segs) = 0 THEN <<>>
  ELSE IF Len(segs) = 1 THEN segs[1]
  ELSE segs[1] \o <<sep>> \o Join(Tail(segs), sep)

\* {"f": [{"i": "v", "n": None}, "w"], "i": "s", "n": None, "x": 5}
GetRecordA ==
  Dict(<<T1("f"), T1("i"), T1("n"), T1("x")>>,
       <<List(<<Dict(<<T1("i"), T1("n")>>, <<Str(T1("v")), None>>), Str(T1("w"))>>),
         Str(T1("s")), None, Num(5)>>)

\* The records get_value is called on: an object, a list at the top, an
\* empty object, and values that are no container at all.
GetRecords ==
  <<GetRecordA, List(<<GetRecordA, List(<<>>)>>), Dict(<<>>, <<>>), None,
    Str(T1("f")), Num(0)>>

GetDefaults == {None, Str(<<"e", "n">>)}

InitGet ==
  /\ pc = "call"
  /\ frame = NoFrame
  /\ \E r \in 1..Len(GetRecords), d \in GetDefaults :
       \/ \E segs \in SegSeqs :
            args = [record |-> GetRecords[r], segs |-> segs,
                    source |-> Str(Join(segs, ".")), default |-> d]
       \/ \E src \in {None, Str(<<>>)} :
            args = [record |-> GetRecords[r], segs |-> <<>>, source |-> src,
                    default |-> d]
  /\ ret = Ret(None)

CallGetValue ==
  /\ pc = "call"
  /\ ret' = get_value(args.record, args.source, args.default)
  /\ pc' = "returned"
  /\ UNCHANGED <<args, frame>>

NextGet == CallGetValue

SpecGet == InitGet /\ [][NextGet]_vars

---------------------------------------------------------------------------
(* More Python text operations: str(), lower() *)

UpperCase ==
  <<"A", "B", "C", "D", "E", "F", "G", "H", "I", "J", "K", "L", "M", "N", "O",
    "P", "Q", "R", "S", "T", "U", "V", "W", "X", "Y", "Z">>

LowerCase ==
  <<"a", "b", "c", "d", "e", "f", "g", "h", "i", "j", "k", "l", "m", "n", "o",
    "p", "q", "r", "s", "t", "u", "v", "w", "x", "y", "z">>

LowerChar(c) ==
  IF \E i \in 1..Len(UpperCase) : UpperCase[i] = c
  THEN LowerCase[CHOOSE i \in 1..Len(UpperCase) : UpperCase[i] = c]
  ELSE c

\* str.lower()
Lower(t) == [i \in 1..Len(t) |-> LowerChar(t[i])]

RECURSIVE NatStr(_)
NatStr(i) == IF i < 10 THEN <<Digits[i + 1]>> ELSE NatStr(i \div 10) \o <<Digits[(i % 10) + 1]>>

RECURSIVE PyStr(_)
RECURSIVE PyRepr(_)
RECURSIVE ReprItems(_)
RECURSIVE ReprPairs(_, _)
\* str(v)
PyStr(v) ==
  CASE v.k = "str" -> v.s
    [] v.k = "none" -> <<"N", "o", "n", "e">>
    [] v.k = "num" -> IF v.n < 0 THEN <<"-">> \o NatStr(0 - v.n) ELSE NatStr(v.n)
    [] v.k = "list" -> <<"[">> \o ReprItems(v.xs) \o <<"]">>
    [] v.k = "dict" -> <<"{">> \o ReprPairs(v.ks, v.xs) \o <<"}">>

\* repr(v), for text without quotes or escapes
PyRepr(v) == IF v.k = "str" THEN <<"'">> \o v.s \o <<"'">> ELSE PyStr(v)

ReprItems(xs) ==
  IF xs = <<>> THEN <<>>
  ELSE IF Len(xs) = 1 THEN PyRepr(xs[1])
  ELSE PyRepr(xs[1]) \o <<",", " ">> \o ReprItems(Tail(xs))

ReprPairs(ks, xs) ==
  IF ks = <<>> THEN <<>>
  ELSE LET one == <<"'">> \o ks[1] \o <<"'", ":", " ">> \o PyRepr(xs[1])
       IN IF Len(ks) = 1 THEN one
          ELSE one \o <<",", " ">> \o ReprPairs(Tail(ks), Tail(xs))

\* d.get(key): None when the key is missing
DictGet(d, key) ==
  IF \E i \in 1..Len(d.ks) : d.ks[i] = key
  THEN d.xs[CHOOSE i \in 1..Len(d.ks) : d.ks[i] = key]
  ELSE None

\* d[key] = val: a later value for a key replaces the earlier one
DictSet(d, key, val) ==
  IF \E i \in 1..Len(d.ks) : d.ks[i] = key
  THEN Dict(d.ks, [i \in 1..Len(d.xs) |-> IF d.ks[i] = key THEN val ELSE d.xs[i]])
  ELSE Dict(Append(d.ks, key), Append(d.xs, val))

---------------------------------------------------------------------------
(* controlled_vocab.py: the entries of CONTROLLED_VOCAB that are modelled *)

K_language == <<"language">>
K_status == <<"status">>
K_keyword == <<"keyword">>

S_EN == <<"E", "N">>
S_FR == <<"F", "R">>
S_engCAN == <<"e", "n", "g", ";", " ", "C", "A", "N">>
S_fraCAN == <<"f", "r", "a", ";", " ", "C", "A", "N">>
S_Ongoing == <<"O", "n", "g", "o", "i", "n", "g">>
S_OngoingTest == <<"O", "n", "g", "o", "i", "n", "g", " ", "T", "e", "s", "t">>
S_Planned == <<"P", "l", "a", "n", "n", "e", "d">>
S_onGoing == <<"o", "n", "G", "o", "i", "n", "g", ";", " ", "e", "n", "C", "o", "n", "t", "i", "n", "u", "e">>
S_planned == <<"p", "l", "a", "n", "n", "e", "d", ";", " ", "p", "l", "a", "n", "i", "f", "i", "e">>
S_Aquaculture == <<"A", "q", "u", "a", "c", "u", "l", "t", "u", "r", "e">>
S_Science == <<"S", "c", "i", "e", "n", "c", "e">>
S_aquaculture == <<"a", "q", "u", "a", "c", "u", "l", "t", "u", "r", "e">>
S_science == <<"s", "c", "i", "e", "n", "c", "e">>

CONTROLLED_VOCAB ==
  Dict(<<K_language, K_status, K_keyword>>,
       <<Dict(<<S_EN, S_FR>>, <<Str(S_engCAN), Str(S_fraCAN)>>),
         Dict(<<S_Planned, S_Ongoing, S_OngoingTest>>,
              <<Str(S_planned), Str(S_onGoing), Str(S_onGoing)>>),
         Dict(<<S_Aquaculture, S_Science>>, <<Str(S_aquaculture), Str(S_science)>>)>>)

---------------------------------------------------------------------------
(* normalization.py *)

\* str(k).strip().lower(), of a vocabulary key
VocabKey(key) == Lower(Strip(key))

\* The dict comprehension of _normalize_vocab, over the first n entries.
RECURSIVE NormalizeMapping(_, _)
NormalizeMapping(mapping, n) ==
  IF n = 0 THEN Dict(<<>>, <<>>)
  ELSE DictSet(NormalizeMapping(mapping, n - 1), VocabKey(mapping.ks[n]), mapping.xs[n])

_normalize_vocab(vocab) ==
  Dict(vocab.ks, [i \in 1..Len(vocab.ks) |->
                    NormalizeMapping(vocab.xs[i], Len(vocab.xs[i].ks))])

NORMALIZED_VOCAB == _normalize_vocab(CONTROLLED_VOCAB)

\* (a lookup key that is trimmed and not lower-cased)
ItemKeyNoLower(item) == Strip(PyStr(item))

\* str(item).strip().lower(), of a raw item
ItemKey(item) == Lower(Strip(PyStr(item)))

\* (an item that is never replaced by its vocabulary entry)
NormalizeItemRaw(vocab, item) == item

\* One item: the vocabulary's entry, or the item itself.
NormalizeItem(vocab, item) ==
  LET entry == DictGet(vocab, ItemKey(item))
  IN IF Truthy(entry) THEN entry ELSE item

\* (an absent value that always comes back as a list)
EmptyAlwaysList(raw_value) == List(<<>>)

\* return [] if isinstance(raw_value, list) else ""
EmptyOfShape(raw_value) == IF raw_value.k = "list" THEN List(<<>>) ELSE Str(<<>>)

\* normalize_controlled_value(field, raw_value): field is None or a str.
normalize_controlled_value(field, raw_value) ==
  IF InAbsent(raw_value) THEN EmptyOfShape(raw_value)
  ELSE
    LET vocab == IF field.k = "str" THEN DictGet(NORMALIZED_VOCAB, field.s) ELSE None
    IN IF ~Truthy(vocab) THEN raw_value
       ELSE IF raw_value.k = "list"
       THEN List([i \in 1..Len(raw_value.xs) |-> NormalizeItem(vocab, raw_value.xs[i])])
       ELSE NormalizeItem(vocab, raw_value)

---------------------------------------------------------------------------
(* codelist_registry.py *)

S_completed == <<"c", "o", "m", "p", "l", "e", "t", "e", "d">>
S_onGoingName == <<"o", "n", "G", "o", "i", "n", "g">>
S_plannedName == <<"p", "l", "a", "n", "n", "e", "d">>
S_utf8 == <<"u", "t", "f", "8">>

\* The register document, napMetadataRegister.xml, as _load_codelists reads
\* it: the RE_RegisterItem elements (the id attribute, "" when there is
\* none, and the texts of the name nodes found under the item) and the
\* RE_ItemClass elements (the id and the xlink:href of each describedItem,
\* "" when there is none), both in document order.
RegisterItems ==
  <<[id |-> <<"RI_596">>, names |-> <<S_completed>>],
    [id |-> <<"RI_602">>, names |-> << <<" ">> \o S_onGoingName \o <<" ">> >>],
    [id |-> <<"RI_603">>, names |-> <<S_plannedName, S_completed>>],
    [id |-> <<"RI_458">>, names |-> <<S_utf8>>],
    [id |-> <<"RI_700">>, names |-> <<>>],
    [id |-> <<>>, names |-> <<S_utf8>>]>>

RegisterClasses ==
  <<[id |-> <<"IC_106">>,
     hrefs |-> <<<<"#", "RI_596">>, <<"#", "RI_602">>, <<>>, <<"#", "RI_603">>,
                 <<"#", "RI_700">>, <<"#", "RI_999">>>>],
    [id |-> <<"IC_95">>, hrefs |-> <<<<"#", "RI_458">>>>],
    [id |-> <<"IC_90">>, hrefs |-> <<>>]>>

\* str.replace(old, "") for a one-character old
RECURSIVE Remove(_, _)
Remove(t, old) ==
  IF t = <<>> THEN <<>>
  ELSE IF Head(t) = old THEN Remove(Tail(t), old)
  ELSE <<Head(t)>> \o Remove(Tail(t), old)

\* The first loop of _load_codelists over the first n items: ri_lookup.
RECURSIVE RiLookup(_, _)
RiLookup(items, n) ==
  IF n = 0 THEN Dict(<<>>, <<>>)
  ELSE LET item == items[n]
           before == RiLookup(items, n - 1)
       IN IF item.id # <<>> /\ item.names # <<>>
          THEN DictSet(before, item.id, Str(Strip(item.names[1])))
          ELSE before

\* (the inner loop keeping the first reference of a name, not the last)
RECURSIVE ValueMapFirst(_, _, _)
ValueMapFirst(ri_lookup, hrefs, n) ==
  IF n = 0 THEN Dict(<<>>, <<>>)
  ELSE LET href == hrefs[n]
           before == ValueMapFirst(ri_lookup, hrefs, n - 1)
           ri_id == Remove(href, "#")
           name == DictGet(ri_lookup, ri_id)
       IN IF href = <<>> THEN before
          ELSE IF Truthy(name) /\ ~Truthy(DictGet(before, name.s))
          THEN DictSet(before, name.s, Str(ri_id))
          ELSE before

\* The inner loop over the first n describedItem of a class: value_map.
RECURSIVE ValueMap(_, _, _)
ValueMap(ri_lookup, hrefs, n) ==
  IF n = 0 THEN Dict(<<>>, <<>>)
  ELSE LET href == hrefs[n]
           before == ValueMap(ri_lookup, hrefs, n - 1)
           ri_id == Remove(href, "#")
           name == DictGet(ri_lookup, ri_id)
       IN IF href = <<>> THEN before
          ELSE IF Truthy(name) THEN DictSet(before, name.s, Str(ri_id))
          ELSE before

\* The second loop over the first n classes: registry.
RECURSIVE Registry(_, _, _)
Registry(ri_lookup, classes, n) ==
  IF n = 0 THEN Dict(<<>>, <<>>)
  ELSE DictSet(Registry(ri_lookup, classes, n - 1), classes[n].id,
               ValueMap(ri_lookup, classes[n].hrefs, Len(classes[n].hrefs)))

_load_codelists ==
  Registry(RiLookup(RegisterItems, Len(RegisterItems)), RegisterClasses,
           Len(RegisterClasses))

CODELIST_REGISTRY == _load_codelists

\* codeList_url.split("#")[-1]
ClassId(codeList_url) ==
  LET parts == Split(codeList_url, "#") IN parts[Len(parts)]

\* (the token taken without trimming it)
DisplayNameNoStrip(display_text) == Split(display_text, ";")[1]

\* display_text.split(";")[0].strip()
DisplayName(display_text) == Strip(Split(display_text, ";")[1])

\* The body of resolve_codelist_value(codeList_url, display_text), over the
\* registry the module holds: codeList_url is None or a str, display_text a
\* str.
ResolveIn(registry, codeList_url, display_text) ==
  IF ~Truthy(display_text) \/ ~Truthy(codeList_url) THEN None
  ELSE IF IndexOf(codeList_url.s, "#") = 0 THEN None
  ELSE LET ic_id == ClassId(codeList_url.s)
           name == DisplayName(display_text.s)
           value_map == DictGet(registry, ic_id)
       IN IF ~Truthy(value_map) THEN None
          ELSE DictGet(value_map, name)

\* resolve_codelist_value over the registry of the register document above.
resolve_codelist_value(codeList_url, display_text) ==
  ResolveIn(CODELIST_REGISTRY, codeList_url, display_text)

---------------------------------------------------------------------------
(* The calls of resolve_codelist_value that are checked: SpecResolve *)

\* The address part of a codeList URL.
RegisterUrl == <<"https://schemas.metadata.geo.ca/register/napMetadataRegister.xml">>

\* A class reference: the fragments that follow the address, each after a #.
RECURSIVE WithFragments(_, _)
WithFragments(base, frags) ==
  IF frags = <<>> THEN base
  ELSE WithFragments(base \o <<"#">> \o Head(frags), Tail(frags))

ClassRefs ==
  {[frags |-> f, url |-> Str(WithFragments(b, f))] :
     b \in {RegisterUrl, <<>>},
     f \in {<<>>, <<<<"IC_106">>>>, <<<<"IC_95">>>>, <<<<"IC_90">>>>, <<<<"IC_0">>>>,
            <<<<>>>>, <<<<"IC_95">>, <<"IC_106">>>>}}
  \cup {[frags |-> <<>>, url |-> None]}

\* A display text: a leading token, blanks around it, and what follows the
\* first ";".
DisplayTexts ==
  {[token |-> t, text |-> Str(l \o t \o r \o rest)] :
     t \in {S_onGoingName, Lower(S_onGoingName), S_completed, S_plannedName,
            S_utf8, <<"z">>, <<>>},
     l \in {<<>>, <<" ">>},
     r \in {<<>>, <<" ", " ">>},
     rest \in {<<>>, <<";">>, <<";", " ", "e", "n", "C", "o", "n", "t", "i", "n", "u", "e">>, <<";", "a", ";", "b">>}}

InitResolve ==
  /\ pc = "call"
  /\ frame = NoFrame
  /\ \E c \in ClassRefs, d \in DisplayTexts : args = [class |-> c, display |-> d]
  /\ ret = Ret(None)

CallResolve ==
  /\ pc = "call"
  /\ ret' = Ret(resolve_codelist_value(args.class.url, args.display.text))
  /\ pc' = "returned"
  /\ UNCHANGED <<args, frame>>

NextResolve == CallResolve

SpecResolve == InitResolve /\ [][NextResolve]_vars

---------------------------------------------------------------------------
(* The import of codelist_registry.py over a register document, and a call
   of resolve_codelist_value after it: SpecRegister *)

MaxRegisterItems == 2
MaxRefs == 2

\* The sequences of at most n members of a set.
UpTo(set, n) == UNION {[1..k -> set] : k \in 0..n}

\* RE_RegisterItem elements of a register document: two items of the same
\* name, an item named with blanks around the name, an item whose name holds
\* a ";", an item of blank name, an item without name node and an item
\* without id. Every name node has a text.
ItemRecords ==
  {[id |-> <<"RI_596">>, names |-> <<S_completed>>],
   [id |-> <<"RI_602">>, names |-> <<S_completed>>],
   [id |-> <<"RI_602">>, names |-> << <<" ">> \o S_onGoingName \o <<" ">> >>],
   [id |-> <<"RI_596">>, names |-> <<S_completed \o <<";">> \o S_onGoingName>>],
   [id |-> <<"RI_603">>, names |-> << <<" ">> >>],
   [id |-> <<"RI_602">>, names |-> <<>>],
   [id |-> <<>>, names |-> <<S_completed>>]}

\* The xlink:href of a describedItem, <<>> when there is none.
Hrefs == {<<"#", "RI_596">>, <<"#", "RI_602">>, <<>>}

\* Register documents: the items, and two RE_ItemClass elements, of the same
\* id or not.
RegisterDocs ==
  {[items |-> i,
    classes |-> <<[id |-> <<"IC_106">>, hrefs |-> h], [id |-> c, hrefs |-> g]>>] :
     i \in UpTo(ItemRecords, MaxRegisterItems),
     h \in UpTo(Hrefs, MaxRefs),
     c \in {<<"IC_106">>, <<"IC_95">>},
     g \in {<<>>, <<<<"#", "RI_602">>>>}}

\* The calls made once the module is imported.
Queries ==
  {[class |-> Str(RegisterUrl \o <<"#">> \o c), display |-> Str(d)] :
     c \in {<<"IC_106">>, <<"IC_95">>},
     d \in {S_completed, S_onGoingName,
            <<" ">> \o S_onGoingName \o <<";", " ", "e", "n", "C", "o", "n", "t", "i", "n", "u", "e">>,
            S_completed \o <<";">> \o S_onGoingName}}

InitRegister ==
  /\ pc = "import"
  /\ \E doc \in RegisterDocs :
       args = [items |-> doc.items, classes |-> doc.classes, class |-> None,
               display |-> None]
  /\ frame = Dict(<<>>, <<>>)
  /\ ret = Ret(None)

\* CODELIST_REGISTRY = _load_codelists(), at import; frame holds the registry.
Import ==
  /\ pc = "import"
  /\ frame' = Registry(RiLookup(args.items, Len(args.items)), args.classes,
                       Len(args.classes))
  /\ pc' = "built"
  /\ UNCHANGED <<args, ret>>

\* resolve_codelist_value(codeList_url, display_text) on the registry built.
ResolveBuilt ==
  /\ pc = "built"
  /\ \E q \in Queries :
       /\ args' = [args EXCEPT !.class = q.class, !.display = q.display]
       /\ ret' = Ret(ResolveIn(frame, q.class, q.display))
  /\ pc' = "returned"
  /\ UNCHANGED frame

NextRegister == Import \/ ResolveBuilt

SpecRegister == InitRegister /\ [][NextRegister]_vars

---------------------------------------------------------------------------
(* The document tree (lxml): xml_builder.py *)

\* A tag as the mapping and the code write it, "gmd:fileIdentifier": the
\* prefix and the local name.  The local name is a sequence of tokens, so
\* that "Date" is a prefix of "DateTime" and "code" of "codeSpace".
Tag(prefix, local) == [p |-> prefix, l |-> local]

\* namespaces
NsPrefixes == {"gmd", "gco", "gml", "xlink", "xsi"}

namespaces ==
  [q \in NsPrefixes |->
     CASE q = "gmd" -> "http://www.isotc211.org/2005/gmd"
       [] q = "gco" -> "http://www.isotc211.org/2005/gco"
       [] q = "gml" -> "http://www.opengis.net/gml/3.2"
       [] q = "xlink" -> "http://www.w3.org/1999/xlink"
       [] q = "xsi" -> "http://www.w3.org/2001/XMLSchema-instance"]

\* resolve_tag(tag): the qualified name, for a tag whose prefix is registered
\* (a tag without a colon has prefix "" and stays as it is).
resolve_tag(tag) == [ns |-> IF tag.p = "" THEN "" ELSE namespaces[tag.p], l |-> tag.l]

\* The attributes the builder reads or writes; <<>> is an absent attribute.
NoAtt == [codeList |-> <<>>, codeListValue |-> <<>>, nilReason |-> <<>>, locale |-> <<>>]

\* An element: its qualified name, its text (<<>> for none), its attributes
\* and its children.
Elem(tag, text, att, kids) == [tag |-> resolve_tag(tag), text |-> text, att |-> att, kids |-> kids]

\* A node is named by its path: the child indexes from the root.
RECURSIVE NodeAt(_, _)
NodeAt(node, path) ==
  IF path = <<>> THEN node ELSE NodeAt(node.kids[Head(path)], Tail(path))

RECURSIVE PutAt(_, _, _)
PutAt(node, path, new) ==
  IF path = <<>> THEN new
  ELSE [node EXCEPT !.kids[Head(path)] = PutAt(@, Tail(path), new)]

Parent(path) == SubSeq(path, 1, Len(path) - 1)

IsPrefix(a, b) == Len(a) <= Len(b) /\ SubSeq(b, 1, Len(a)) = a

\* The paths of a node and its descendants, in document order.
RECURSIVE DocOrder(_, _)
RECURSIVE KidsOrder(_, _, _)
DocOrder(node, path) == <<path>> \o KidsOrder(node, path, 1)

KidsOrder(node, path, i) ==
  IF i > Len(node.kids) THEN <<>>
  ELSE DocOrder(node.kids[i], Append(path, i)) \o KidsOrder(node, path, i + 1)

\* The descendants of the node at path (not the node), in document order.
Descendants(tree, path) == Tail(DocOrder(NodeAt(tree, path), path))

\* The qualified names from the root down to the node at path.
TagChain(tree, path) ==
  [i \in 1..(Len(path) + 1) |-> NodeAt(tree, SubSeq(path, 1, i - 1)).tag]

\* tree.xpath("/a/b/c"): the nodes whose names from the root are a, b, c.
XPathAbs(tree, steps) ==
  LET want == [i \in 1..Len(steps) |-> resolve_tag(steps[i])]
      Keep(path) == TagChain(tree, path) = want
  IN SelectSeq(DocOrder(tree, <<>>), Keep)

\* node.xpath(".//t") and node.find(".//t"): the descendants named t.
DescendantsNamed(tree, path, tag) ==
  LET Keep(q) == NodeAt(tree, q).tag = resolve_tag(tag)
  IN SelectSeq(Descendants(tree, path), Keep)

\* "/p:local" in xpath, for the xpath "/" + "/".join(steps)
XPathContains(steps, prefix, local) ==
  \E i \in 1..Len(steps) :
     /\ steps[i].p = prefix
     /\ steps[i].l # <<>>
     /\ Head(steps[i].l) = local

---------------------------------------------------------------------------
(* set_text and what it calls: xml_builder.py *)

\* Runs of characters that the date and code operations take whole: a
\* calendar date, a clock time, a UTC offset, the authority of a code.
DateTokens == {"2025-11-19", "2024-02-29"}

TimeTokens == {"20:55:54"}

OffsetToken == "+00:00"

\* value.replace("Z", "+00:00")
ReplaceZ(t) == [i \in 1..Len(t) |-> IF t[i] = "Z" THEN OffsetToken ELSE t[i]]

\* What datetime.fromisoformat accepts: a date, or a date, a separator, a
\* time and possibly an offset.
IsIsoFormat(t) ==
  /\ Len(t) \in {1, 3, 4}
  /\ t[1] \in DateTokens
  /\ Len(t) >= 3 => t[2] \in {"T", " "} /\ t[3] \in TimeTokens
  /\ Len(t) = 4 => t[4] = OffsetToken

\* (a date normalisation that keeps the time)
normalize_date_keep(value) == value

\* normalize_date(value): "" for a falsy value, the date of an ISO date or
\* datetime, and the value itself when it does not parse or is no text.
normalize_date(value) ==
  IF ~Truthy(value) THEN Str(<<>>)
  ELSE IF value.k = "str" /\ IsIsoFormat(ReplaceZ(value.s)) THEN Str(<<value.s[1]>>)
  ELSE value

\* value.replace(auth + "-", auth + ":")
RECURSIVE ReplaceDash(_, _)
ReplaceDash(t, auth) ==
  IF t = <<>> THEN <<>>
  ELSE IF Len(t) >= 2 /\ t[1] = auth /\ t[2] = "-"
  THEN <<auth, ":">> \o ReplaceDash(SubSeq(t, 3, Len(t)), auth)
  ELSE <<Head(t)>> \o ReplaceDash(Tail(t), auth)

\* normalize_code(value)
normalize_code(value) ==
  IF ~Truthy(value) THEN Str(<<>>)
  ELSE IF value.k # "str" THEN value
  ELSE IF Head(value.s) = "EPSG" THEN Str(ReplaceDash(value.s, "EPSG"))
  ELSE IF Head(value.s) = "SR-ORG" THEN Str(ReplaceDash(value.s, "SR-ORG"))
  ELSE value

\* The value set_text writes: lines 178-183.
TextValue(xpath, value) ==
  LET v1 == IF XPathContains(xpath, "gco", "Date") THEN normalize_date(value) ELSE value
  IN IF XPathContains(xpath, "gmd", "code") THEN normalize_code(v1) ELSE v1

T_Localised == Tag("gmd", <<"LocalisedCharacterString">>)

\* "#fra" if lang == "en" else "#eng"
\* (the locale of the document's own language)
SecondaryLocaleOwn(lang) == IF lang = "en" THEN <<"#", "eng">> ELSE <<"#", "fra">>

SecondaryLocale(lang) == IF lang = "en" THEN <<"#", "fra">> ELSE <<"#", "eng">>

\* The outcome of a step on the tree: the tree, or an exception.
Ok(tree) == [exc |-> "", tree |-> tree]

Fail(e, tree) == [exc |-> e, tree |-> tree]

\* (the text written before the registry is asked)
WriteCodeListLeafFirst(node, value) ==
  LET resolved == resolve_codelist_value(Str(node.att.codeList), Str(PyStr(value)))
  IN IF ~Truthy(resolved) THEN [node EXCEPT !.text = PyStr(value)]
     ELSE [node EXCEPT !.text = PyStr(value), !.att.codeListValue = resolved.s]

\* Lines 189-202, on a node with a codeList: the node as it is when the
\* registry does not resolve the value, and the text and codeListValue set
\* when it does.
WriteCodeListLeaf(node, value) ==
  LET resolved == resolve_codelist_value(Str(node.att.codeList), Str(PyStr(value)))
  IN IF ~Truthy(resolved) THEN node
     ELSE [node EXCEPT !.text = PyStr(value), !.att.codeListValue = resolved.s]

\* Whether the loop body goes on after the write (no "continue").
LeafWritten(node, value) ==
  node.att.codeList = <<>> \/
  Truthy(resolve_codelist_value(Str(node.att.codeList), Str(PyStr(value))))

\* Lines 211-219: the secondary text, in the first
\* LocalisedCharacterString under the parent.
WriteSecondary(lang, tree, parent, secondary_value) ==
  IF InAbsent(secondary_value) THEN tree
  ELSE LET fr_nodes == DescendantsNamed(tree, parent, T_Localised)
       IN IF fr_nodes = <<>> THEN tree
          ELSE PutAt(tree, fr_nodes[1],
                     [NodeAt(tree, fr_nodes[1]) EXCEPT
                        !.att.locale = SecondaryLocale(lang),
                        !.text = PyStr(secondary_value)])

\* The body of the loop of set_text for one node.
SetTextNode(lang, tree, path, value, secondary_value) ==
  LET node == NodeAt(tree, path)
      t1 == PutAt(tree, path,
                  IF node.att.codeList # <<>> THEN WriteCodeListLeaf(node, value)
                  ELSE [node EXCEPT !.text = PyStr(value)])
  IN IF ~LeafWritten(node, value) THEN Ok(t1)
     ELSE IF path = <<>> THEN Fail("AttributeError", t1)
     ELSE LET parent == Parent(path)
              t2 == PutAt(t1, parent,
                          [NodeAt(t1, parent) EXCEPT !.att.nilReason = <<>>])
          IN Ok(WriteSecondary(lang, t2, parent, secondary_value))

RECURSIVE SetTextLoop(_, _, _, _, _)
SetTextLoop(lang, tree, nodes, value, secondary_value) ==
  IF nodes = <<>> THEN Ok(tree)
  ELSE LET r == SetTextNode(lang, tree, Head(nodes), value, secondary_value)
       IN IF r.exc # "" THEN r
          ELSE SetTextLoop(lang, r.tree, Tail(nodes), value, secondary_value)

\* set_text(lang, tree, xpath, value, secondary_value)
set_text(lang, tree, xpath, value, secondary_value) ==
  IF InAbsent(value) THEN Ok(tree)
  ELSE SetTextLoop(lang, tree, XPathAbs(tree, xpath), TextValue(xpath, value),
                   secondary_value)

---------------------------------------------------------------------------
(* set_repeated_values: xml_builder.py *)

\* iter(values), as a list: the items of a list, the characters of a str,
\* the keys of a dict; a number is not iterable.
Iter(values) ==
  CASE values.k = "list" -> Ret(values)
    [] values.k = "str" -> Ret(List([i \in 1..Len(values.s) |-> Str(<<values.s[i]>>)]))
    [] values.k = "dict" -> Ret(List([i \in 1..Len(values.ks) |-> Str(values.ks[i])]))
    [] OTHER -> Raise("TypeError")

\* len(values)
PyLen(values) ==
  CASE values.k = "list" -> Ret(Num(Len(values.xs)))
    [] values.k = "str" -> Ret(Num(Len(values.s)))
    [] values.k = "dict" -> Ret(Num(Len(values.ks)))
    [] OTHER -> Raise("TypeError")

\* Lines 264-269: fr_list.
FrList(values, secondary_values) ==
  IF secondary_values.k = "list" THEN Ret(secondary_values)
  ELSE LET len == PyLen(values)
       IN IF len.exc # "" THEN len
          ELSE IF Truthy(secondary_values)
          THEN Ret(List([i \in 1..len.val.n |-> secondary_values]))
          ELSE Ret(List([i \in 1..len.val.n |-> None]))

\* (the test without the bound on i)
HasSecondaryNoBound(fr_list, i) == fr_list # <<>>

\* fr_list and i < len(fr_list), the guard of the read of fr_list[i]
HasSecondary(fr_list, i) == fr_list # <<>> /\ i < Len(fr_list)

\* The children of a container named qname, as child indexes.
ChildrenNamed(container, qname) ==
  SelectSeq([i \in 1..Len(container.kids) |-> i],
            LAMBDA i : container.kids[i].tag = qname)

\* container.remove(elem) for every elem of existing
RemoveNamed(kids, qname) == SelectSeq(kids, LAMBDA kid : kid.tag # qname)

\* (an insert that appends)
InsertAtEnd(kids, index, elem) == Append(kids, elem)

\* container.insert(index, elem), index counted from 0
InsertAt(kids, index, elem) ==
  IF index >= Len(kids) THEN Append(kids, elem)
  ELSE SubSeq(kids, 1, index) \o <<elem>> \o SubSeq(kids, index + 1, Len(kids))

\* Lines 279-283: the value in the clone.
CloneWithValue(new_elem, value_xpath, value) ==
  LET found == DescendantsNamed(new_elem, <<>>, value_xpath)
  IN IF found = <<>> THEN new_elem
     ELSE LET value_node == found[1]
              e1 == PutAt(new_elem, Parent(value_node),
                          [NodeAt(new_elem, Parent(value_node)) EXCEPT
                             !.att.nilReason = <<>>])
          IN PutAt(e1, value_node, [NodeAt(e1, value_node) EXCEPT !.text = PyStr(value)])

\* Lines 286-295: the secondary text in the clone.
CloneWithSecondary(lang, new_elem, fr_list, i) ==
  IF ~HasSecondary(fr_list, i) THEN Ok(new_elem)
  ELSE LET item == ListItem(List(fr_list), i)
       IN IF item.exc # "" THEN Fail(item.exc, new_elem)
          ELSE IF ~Truthy(item.val) THEN Ok(new_elem)
          ELSE LET fr_node == DescendantsNamed(new_elem, <<>>, T_Localised)
               IN IF fr_node = <<>> THEN Ok(new_elem)
                  ELSE Ok(PutAt(new_elem, fr_node[1],
                                [NodeAt(new_elem, fr_node[1]) EXCEPT
                                   !.att.locale = SecondaryLocale(lang),
                                   !.text = PyStr(item.val)]))

\* The loop of lines 271-295 from item i (counted from 0) on; kids are the
\* children of the container.
RECURSIVE RepeatLoop(_, _, _, _, _, _, _, _)
RepeatLoop(lang, kids, template, insert_index, value_xpath, items, fr_list, i) ==
  IF i >= Len(items) THEN Ok(kids)
  ELSE LET e1 == CloneWithValue(template, value_xpath, items[i + 1])
           e2 == CloneWithSecondary(lang, e1, fr_list, i)
       IN IF e2.exc # "" THEN Fail(e2.exc, kids)
          ELSE RepeatLoop(lang, InsertAt(kids, insert_index + i, e2.tree), template,
                          insert_index, value_xpath, items, fr_list, i + 1)

\* set_repeated_values(lang, tree, container_xpath, repeat_tag, value_xpath,
\* values, secondary_values)
set_repeated_values(lang, tree, container_xpath, repeat_tag, value_xpath, values, secondary_values) ==
  LET containers == XPathAbs(tree, container_xpath) IN
  IF ~Truthy(values) \/ containers = <<>> THEN Ok(tree)
  ELSE
    LET container == NodeAt(tree, containers[1])
        existing == ChildrenNamed(container, resolve_tag(repeat_tag))
    IN IF existing = <<>> THEN Ok(tree)
       ELSE
         LET template == container.kids[existing[1]]
             insert_index == existing[1] - 1
             kids == RemoveNamed(container.kids, resolve_tag(repeat_tag))
             removed == PutAt(tree, containers[1], [container EXCEPT !.kids = kids])
             fr_list == FrList(values, secondary_values)
             items == Iter(values)
         IN IF fr_list.exc # "" THEN Fail(fr_list.exc, removed)
            ELSE IF items.exc # "" THEN Fail(items.exc, removed)
            ELSE LET done == RepeatLoop(lang, kids, template, insert_index,
                                        value_xpath, items.val.xs,
                                        fr_list.val.xs, 0)
                 IN IF done.exc # "" THEN Fail(done.exc, removed)
                    ELSE Ok(PutAt(tree, containers[1],
                                  [container EXCEPT !.kids = done.tree]))

---------------------------------------------------------------------------
(* clean_illegal_placeholders, enforce_required_fields: xml_builder.py *)

T_Date == Tag("gco", <<"Date">>)
T_topicCategory == Tag("gmd", <<"topicCategory">>)
T_TopicCategoryCode == Tag("gmd", <<"MD_TopicCategoryCode">>)
T_fileIdentifier == Tag("gmd", <<"fileIdentifier">>)
T_CharacterString == Tag("gco", <<"CharacterString">>)
T_dateStamp == Tag("gmd", <<"dateStamp">>)
T_DateTime == Tag("gco", <<"Date", "Time">>)

\* not (text and text.strip())
Blank(text) == Strip(text) = <<>>

\* While a loop of clean_illegal_placeholders runs, the nodes it found
\* before it started are attached to the document or lie in a subtree the
\* loop has removed.  forest[1] is the document and the other trees are the
\* removed subtrees; a found node is [t, p]: its tree and its path there.
At(t, p) == [t |-> t, p |-> p]

\* A found node after the subtree at path c was removed from tree t and
\* became tree new.
AfterRemoval(item, t, c, new) ==
  IF item.t # t THEN item
  ELSE IF IsPrefix(c, item.p) THEN At(new, SubSeq(item.p, Len(c) + 1, Len(item.p)))
  ELSE IF /\ Len(item.p) >= Len(c)
          /\ IsPrefix(Parent(c), item.p)
          /\ item.p[Len(c)] > c[Len(c)]
  THEN At(t, [item.p EXCEPT ![Len(c)] = @ - 1])
  ELSE item

\* The children without the i-th.
DropKid(kids, i) == SubSeq(kids, 1, i - 1) \o SubSeq(kids, i + 1, Len(kids))

\* The test of a loop on a found node: a gco:Date without text (up = 2), a
\* gmd:topicCategory without a code or with a code without text (up = 0).
Illegal(tree, p, up) ==
  IF up = 2 THEN Blank(NodeAt(tree, p).text)
  ELSE LET code == DescendantsNamed(tree, p, T_TopicCategoryCode)
       IN code = <<>> \/ Blank(NodeAt(tree, code[1]).text)

\* A loop of clean_illegal_placeholders over the found nodes: an illegal
\* node has its ancestor up levels above removed from that ancestor's
\* parent.  getparent() of a root is None, and the call on None raises.
RECURSIVE CleanLoop(_, _, _)
CleanLoop(forest, items, up) ==
  IF items = <<>> THEN [exc |-> "", forest |-> forest]
  ELSE
    LET t == Head(items).t
        p == Head(items).p
    IN IF ~Illegal(forest[t], p, up) THEN CleanLoop(forest, Tail(items), up)
       ELSE IF Len(p) <= up THEN [exc |-> "AttributeError", forest |-> forest]
       ELSE
         LET c == SubSeq(p, 1, Len(p) - up)
             holder == NodeAt(forest[t], Parent(c))
             pruned == PutAt(forest[t], Parent(c),
                             [holder EXCEPT !.kids = DropKid(@, c[Len(c)])])
             new == Len(forest) + 1
             rest == [i \in 1..(Len(items) - 1) |->
                        AfterRemoval(items[i + 1], t, c, new)]
         IN CleanLoop(Append([forest EXCEPT ![t] = pruned], NodeAt(forest[t], c)),
                      rest, up)

\* tree.xpath(".//t"), as found nodes of the document
FoundNamed(tree, tag) ==
  LET found == DescendantsNamed(tree, <<>>, tag)
  IN [i \in 1..Len(found) |-> At(1, found[i])]

\* clean_illegal_placeholders(tree)
clean_illegal_placeholders(tree) ==
  LET dates == CleanLoop(<<tree>>, FoundNamed(tree, T_Date), 2)
  IN IF dates.exc # "" THEN Fail(dates.exc, dates.forest[1])
     ELSE LET t1 == dates.forest[1]
              topics == CleanLoop(<<t1>>, FoundNamed(t1, T_topicCategory), 0)
          IN IF topics.exc # "" THEN Fail(topics.exc, topics.forest[1])
             ELSE Ok(topics.forest[1])

\* tree.xpath(".//a/b"): the children named b of the descendants named a
ChildOfNamed(tree, a, b) ==
  SelectSeq(Descendants(tree, <<>>),
            LAMBDA q : /\ Len(q) >= 2
                       /\ NodeAt(tree, q).tag = resolve_tag(b)
                       /\ NodeAt(tree, Parent(q)).tag = resolve_tag(a))

\* nodes[0].text = text, if there are nodes
SetFirstText(tree, nodes, text) ==
  IF nodes = <<>> THEN tree
  ELSE PutAt(tree, nodes[1], [NodeAt(tree, nodes[1]) EXCEPT !.text = text])

\* (only the record identifier forced)
enforce_identifier_only(tree, record_id, now) ==
  SetFirstText(tree, ChildOfNamed(tree, T_fileIdentifier, T_CharacterString),
               PyStr(record_id))

\* enforce_required_fields(tree, record_id), now being
\* datetime.now().isoformat()
enforce_required_fields(tree, record_id, now) ==
  LET t1 == SetFirstText(tree, ChildOfNamed(tree, T_fileIdentifier, T_CharacterString),
                         PyStr(record_id))
  IN SetFirstText(t1, ChildOfNamed(t1, T_dateStamp, T_DateTime), now \o <<"Z">>)

---------------------------------------------------------------------------
(* The skeleton documents, src/xml/base_<lang><_spatial>.xml *)

T_MD_Metadata == Tag("gmd", <<"MD_Metadata">>)
T_status == Tag("gmd", <<"status">>)
T_ProgressCode == Tag("gmd", <<"MD_ProgressCode">>)
T_title == Tag("gmd", <<"title">>)
T_PT_FreeText == Tag("gmd", <<"PT_FreeText">>)
T_date == Tag("gmd", <<"date">>)
T_CI_Date == Tag("gmd", <<"CI_Date">>)
T_code == Tag("gmd", <<"code">>)
T_DataIdentification == Tag("gmd", <<"MD_DataIdentification">>)
T_abstract == Tag("gmd", <<"abstract">>)
T_purpose == Tag("gmd", <<"purpose">>)
T_MD_Keywords == Tag("gmd", <<"MD_Keywords">>)
T_keyword == Tag("gmd", <<"keyword">>)
T_spatialRepresentationType == Tag("gmd", <<"spatialRepresentationType">>)

\* The most gmd:topicCategory placeholders a skeleton holds.
MaxPlaceholders == 2

\* An element with text and no children.
Leaf(tag, text) == Elem(tag, text, NoAtt, <<>>)

\* An element with children and no text.
Group(tag, kids) == Elem(tag, <<>>, NoAtt, kids)

S_missing == <<"m", "i", "s", "s", "i", "n", "g">>
S_DefaultAbstract == <<"N", "o", "t", " ", "p", "r", "o", "v", "i", "d", "e", "d">>
S_DefaultCode == <<"EPSG", ":", "0">>

\* The locale a skeleton gives its secondary texts.
SkeletonLocale(of_lang) == IF of_lang = "en" THEN <<"#", "fra">> ELSE <<"#", "eng">>

\* A text with its translation: gco:CharacterString and gmd:PT_FreeText.
FreeText(of_lang) ==
  <<Leaf(T_CharacterString, <<>>),
    Group(T_PT_FreeText,
          <<Elem(T_Localised, <<>>, [NoAtt EXCEPT !.locale = SkeletonLocale(of_lang)],
                 <<>>)>>)>>

TopicPlaceholder == Group(T_topicCategory, <<Leaf(T_TopicCategoryCode, <<>>)>>)

\* The skeleton of a language, spatial or not, with n topicCategory
\* placeholders: the first before gmd:purpose, the others after it.
Skeleton(of_lang, spatial, n) ==
  Group(T_MD_Metadata,
        <<Group(T_fileIdentifier, <<Leaf(T_CharacterString, <<>>)>>),
          Group(T_dateStamp, <<Leaf(T_DateTime, <<>>)>>),
          Group(T_status,
                <<Elem(T_ProgressCode, S_completed,
                       [NoAtt EXCEPT
                          !.codeList = WithFragments(RegisterUrl, << <<"IC_106">> >>),
                          !.codeListValue = <<"RI_596">>],
                       <<>>)>>),
          Elem(T_title, <<>>, [NoAtt EXCEPT !.nilReason = S_missing], FreeText(of_lang)),
          Group(T_date, <<Group(T_CI_Date, <<Group(T_date, <<Leaf(T_Date, <<>>)>>)>>)>>),
          Group(T_code, <<Leaf(T_CharacterString, S_DefaultCode)>>),
          Group(T_DataIdentification,
                <<Group(T_abstract, <<Leaf(T_CharacterString, S_DefaultAbstract)>>),
                  TopicPlaceholder,
                  Group(T_purpose, <<Leaf(T_CharacterString, <<>>)>>)>>
                \o [i \in 1..(n - 1) |-> TopicPlaceholder]),
          Group(T_MD_Keywords,
                <<Elem(T_keyword, <<>>, [NoAtt EXCEPT !.nilReason = S_missing],
                       FreeText(of_lang))>>)>>
        \o IF spatial
           THEN <<Group(T_spatialRepresentationType, <<Leaf(T_CharacterString, <<>>)>>)>>
           ELSE <<>>)

\* f"src/xml/base_{lang}{base_xml_suffix}.xml"
BaseXmlPath(of_lang, is_spatial) ==
  <<"src/xml/base_", of_lang, IF is_spatial THEN "_spatial" ELSE "", ".xml">>

\* The skeleton files there are: one per language, spatial or not.
SkeletonFiles == {BaseXmlPath(l, s) : l \in {"en", "fr"}, s \in BOOLEAN}

\* load_base_xml(path), the files of paths holding skeletons with n
\* placeholders
load_base_xml(path, files, n) ==
  IF path \notin files THEN Fail("FileNotFoundError", NoTree)
  ELSE Ok(Skeleton(path[2], path[3] = "_spatial", n))

---------------------------------------------------------------------------
(* build_xml: xml_builder.py *)

\* A mapping entry: a dict whose keys are entry.keys.  The locations are
\* the steps of the XPath text; source, source_fr, repeat and controlled
\* are Python values.
Entry(source, source_fr, repeat, controlled, xpath, container_xpath, repeat_tag, value_xpath, present) ==
  [source |-> source, source_fr |-> source_fr, repeat |-> repeat,
   controlled |-> controlled, xpath |-> xpath, container_xpath |-> container_xpath,
   repeat_tag |-> repeat_tag, value_xpath |-> value_xpath, keys |-> present]

\* field.get(key)
FieldGet(field, key) == IF key \in field.keys THEN field[key] ELSE None

\* (the roles of an English document, whatever the language)
SourcesAsEnglish(lang, field) ==
  [primary |-> FieldGet(field, "source"), secondary |-> FieldGet(field, "source_fr")]

\* Lines 391-400: the primary and the secondary source of an entry.
Sources(lang, field) ==
  IF lang = "fr"
  THEN IF Truthy(FieldGet(field, "source_fr"))
       THEN [primary |-> FieldGet(field, "source_fr"),
             secondary |-> FieldGet(field, "source")]
       ELSE [primary |-> FieldGet(field, "source"), secondary |-> None]
  ELSE [primary |-> FieldGet(field, "source"),
        secondary |-> FieldGet(field, "source_fr")]

\* normalize_controlled_value(field.get("controlled"), get_value(record, source))
Extract(record, field, source) ==
  LET got == get_value(record, source, None)
  IN IF got.exc # "" THEN got
     ELSE Ret(normalize_controlled_value(FieldGet(field, "controlled"), got.val))

\* Lines 409-414 and 434-439: None without a secondary source.
ExtractSecondary(record, field, source) ==
  IF Truthy(source) THEN Extract(record, field, source) ELSE Ret(None)

\* s.startswith(prefix)
StartsWith(t, prefix) == IsPrefix(prefix, t)

\* (French only for the text "fr" itself)
DocumentLanguageExact(record) ==
  IF get_value(record, Str(<<"edhProfile", ".", "language">>), Str(<<"e", "n">>)).val
       = Str(<<"f", "r">>)
  THEN "fr" ELSE "en"

\* Lines 375-377: the language of the document.
DocumentLanguage(record) ==
  LET got == get_value(record, Str(<<"edhProfile", ".", "language">>),
                       Str(<<"e", "n">>))
      text == Lower(Strip(PyStr(got.val)))
  IN IF StartsWith(text, <<"f", "r">>) THEN "fr" ELSE "en"

\* bool(get_value(record, "spatialType"))
IsSpatial(record) == Truthy(get_value(record, Str(<<"spatialType">>), None).val)

\* base_xml_path left out of the call: None.
NoPath == <<>>

\* The characters of the chunks paths are made of.
Chars(chunk) ==
  CASE chunk = "src/xml/base_" ->
         <<"s", "r", "c", "/", "x", "m", "l", "/", "b", "a", "s", "e", "_">>
    [] chunk = "FR/base_" -> <<"F", "R", "/", "b", "a", "s", "e", "_">>
    [] chunk = "en" -> <<"e", "n">>
    [] chunk = "fr" -> <<"f", "r">>
    [] chunk = "_spatial" -> <<"_", "s", "p", "a", "t", "i", "a", "l">>
    [] chunk = ".xml" -> <<".", "x", "m", "l">>
    [] OTHER -> <<>>

\* The text of a path: its chunks one after the other.
RECURSIVE PathText(_)
PathText(path) == IF path = <<>> THEN <<>> ELSE Chars(Head(path)) \o PathText(Tail(path))

\* sub in text
Contains(text, sub) ==
  \E i \in 1..(Len(text) - Len(sub) + 1) : SubSeq(text, i, i + Len(sub) - 1) = sub

\* Line 381: the language of a call that passes base_xml_path.
PathLanguage(base_xml_path) ==
  IF Contains(Lower(PathText(base_xml_path)), <<"f", "r">>) THEN "fr" ELSE "en"

\* The frame of build_xml: lang, tree, the position in the mapping (from
\* 1), and what the last step was given: the tree before it, and the values
\* it passed on.
Frame(lang, tree, pos, prev, value, secondary) ==
  [lang |-> lang, tree |-> tree, pos |-> pos, prev |-> prev, value |-> value,
   secondary |-> secondary]

---------------------------------------------------------------------------
(* The builds that are checked: Spec *)

\* The longest list a record holds.
MaxVals == 2

Root(steps) == <<T_MD_Metadata>> \o steps

NoTag == Tag("", <<>>)

\* An entry for one leaf.
Scalar(source_fr, controlled, xpath) ==
  Entry(Str(<<"a">>), source_fr, None, controlled, xpath, <<>>, NoTag, NoTag,
        {"source", "xpath"}
        \cup (IF source_fr = None THEN {} ELSE {"source_fr"})
        \cup (IF controlled = None THEN {} ELSE {"controlled"}))

\* An entry for a repeated element.
Repeated(source_fr, controlled, container_xpath, repeat_tag, value_xpath) ==
  Entry(Str(<<"a">>), source_fr, Str(<<"t", "r", "u", "e">>), controlled, <<>>,
        container_xpath, repeat_tag, value_xpath,
        {"source", "repeat", "container_xpath", "repeat_tag", "value_xpath"}
        \cup (IF source_fr = None THEN {} ELSE {"source_fr"})
        \cup (IF controlled = None THEN {} ELSE {"controlled"}))

E_id == Scalar(None, None, Root(<<T_fileIdentifier, T_CharacterString>>))
E_stamp == Scalar(None, None, Root(<<T_dateStamp, T_DateTime>>))
E_status == Scalar(None, Str(K_status), Root(<<T_status, T_ProgressCode>>))
E_title == Scalar(Str(<<"b">>), None, Root(<<T_title, T_CharacterString>>))
E_date == Scalar(None, None, Root(<<T_date, T_CI_Date, T_date, T_Date>>))
E_code == Scalar(None, None, Root(<<T_code, T_CharacterString>>))
E_abstract ==
  Scalar(None, None, Root(<<T_DataIdentification, T_abstract, T_CharacterString>>))
E_abstractStatus ==
  Scalar(None, Str(K_status),
         Root(<<T_DataIdentification, T_abstract, T_CharacterString>>))
E_topic ==
  Repeated(None, Str(K_keyword), Root(<<T_DataIdentification>>), T_topicCategory,
           T_TopicCategoryCode)
E_keyword ==
  Repeated(Str(<<"b">>), None, Root(<<T_MD_Keywords>>), T_keyword, T_CharacterString)

\* The mappings: none, one entry, and two entries for different leaves, for
\* one leaf and for a leaf and a repeated element.
Mappings ==
  {<<>>, <<E_id>>, <<E_stamp>>, <<E_status>>, <<E_title>>, <<E_date>>, <<E_code>>,
   <<E_abstract>>, <<E_topic>>, <<E_keyword>>,
   <<E_id, E_stamp>>, <<E_status, E_abstract>>, <<E_abstract, E_abstractStatus>>,
   <<E_date, E_topic>>, <<E_topic, E_keyword>>}

\* Whether "b" is read.
ReadsB(mapping) ==
  \E i \in 1..Len(mapping) : "source_fr" \in mapping[i].keys

S_DateTime == <<"2025-11-19", "T", "20:55:54", "Z">>
S_Epsg == <<"EPSG", "-", "4", "3", "2", "6">>
S_zz == <<"z", "z">>

\* The lists of at most MaxVals items of a pool.
ListsOf(pool) == {List(xs) : xs \in UNION {[1..n -> pool] : n \in 0..MaxVals}}

\* What a record holds at "a".
PrimaryVals ==
  {None, Str(<<>>), Str(S_Ongoing), Str(S_zz), Num(5), Str(S_DateTime), Str(S_Epsg),
   Dict(<< <<"k">> >>, <<Str(<<"v">>)>>)}
  \cup ListsOf({Str(S_Aquaculture), Str(S_zz)})

\* What a record holds at "b".
SecondaryVals ==
  {None, Str(<<"f">>)} \cup ListsOf({Str(<<"f">>), None})

\* What a record holds at "edhProfile.language", None for no such key.
LanguageVals == {None, Str(<<" ", "F", "R">>)}

\* A record.
RecordOf(a, b, language) ==
  Dict(<< <<"a">>, <<"b">> >> \o
       IF language = None THEN <<>> ELSE << <<"edhProfile">> >>,
       <<a, b>> \o
       IF language = None THEN <<>>
       ELSE <<Dict(<< <<"language">> >>, <<language>>)>>)

RecordIds == {Num(42)}

\* datetime.now().isoformat()
Timestamps ==
  {<<"2026-03-01", "T", "10:00:00.000001">>, <<"2026-03-01", "T", "10:00:00.000002">>}

\* An entry with a literal: "text" and "text_fr" beside the source.
E_literal ==
  [Scalar(Str(<<"b">>), None, Root(<<T_title, T_CharacterString>>)) EXCEPT
     !.keys = @ \cup {"text", "text_fr"}]

S_LiteralText == <<"N", "o", "r", "t", "h">>
S_LiteralTextFr == <<"N", "o", "r", "d">>

\* The literals of an entry: field.get("text"), field.get("text_fr").
Literal(field, key) ==
  IF key \notin field.keys THEN None
  ELSE IF key = "text" THEN Str(S_LiteralText) ELSE Str(S_LiteralTextFr)

\* A repeat entry whose tag is no child of its container, and one as
\* mapping.py writes it: a repeat tag and no container_xpath.
E_strayRepeat ==
  Repeated(None, None, Root(<<T_DataIdentification>>), T_keyword, T_CharacterString)

E_pathRepeat ==
  [Repeated(None, None, <<>>, T_topicCategory, T_TopicCategoryCode) EXCEPT
     !.keys = {"source", "repeat", "path"}]

\* FIELD_MAPPING of mapping.py: a dict from names to entries, of which
\* "id", "date_stamp" and "topic_category" are kept.  An entry is a dict
\* of its keys other than "path".
FIELD_MAPPING ==
  Dict(<< <<"id">>, <<"date_stamp">>, <<"topic_category">> >>,
       <<Dict(<< <<"source">> >>, <<Str(<<"files", ".", "0", ".", "id">>)>>),
         Dict(<< <<"text">> >>, <<Str(<<"2026-03-01", "T", "09:00:00">>)>>),
         Dict(<< <<"source">>, <<"repeat">> >>,
              <<Str(<<"edhProfile", ".", "topicCategory">>),
                Str(<<"gmd:topicCategory">>)>>)>>)

\* What "for field in mapping" gives: the items of a list, the keys of a
\* dict.
Fields(mapping) ==
  IF mapping.k = "dict" THEN [i \in 1..Len(mapping.ks) |-> Str(mapping.ks[i])]
  ELSE mapping.xs

\* Whether an item of the mapping is a dict (an entry) and has .get.
IsEntry(field) == "keys" \in DOMAIN field

\* The record without a key.
EmptyRecord == Dict(<<>>, <<>>)

\* The builds beside those of Mappings: a literal entry, misplaced repeat
\* entries, the configured mapping, an empty record, and a skeleton file
\* that is missing.
OtherRuns ==
  {[mapping |-> m, record |-> RecordOf(a, Str(<<"f">>), None), files |-> SkeletonFiles] :
     m \in {<<E_literal>>, <<E_strayRepeat, E_abstract>>, <<E_pathRepeat>>},
     a \in {None, Str(S_zz), List(<<Str(S_zz)>>)}}
  \cup {[mapping |-> m, record |-> r, files |-> SkeletonFiles] :
          m \in {Fields(FIELD_MAPPING), <<>>, <<E_id, E_stamp>>, <<E_date, E_topic>>,
                 <<E_topic, E_keyword>>},
          r \in {EmptyRecord}}
  \cup {[mapping |-> Fields(FIELD_MAPPING), record |-> RecordOf(Str(S_zz), None, None),
         files |-> SkeletonFiles]}
  \cup {[mapping |-> m, record |-> RecordOf(a, None, None),
         files |-> SkeletonFiles \ {BaseXmlPath("en", FALSE)}] :
          m \in {<<>>, <<E_id, E_stamp>>, <<E_topic, E_keyword>>},
          a \in {None, Str(S_zz)}}

\* What a record has at "edhProfile.language": French and English in
\* several spellings, other texts, a number, null.
LanguageTexts ==
  {Str(<<"f", "r">>), Str(<<" ", "F", "r", "a", " ">>), Str(<<"F", "R", "-", "C", "A">>),
   Str(<<"e", "n">>), Str(<<"e", "n", "-", "f", "r">>), Str(<<"c", "f", "r">>),
   Str(<<>>), Num(5), None}

\* Records for the language: "edhProfile" absent, without "language", with
\* each of LanguageTexts; "spatialType" absent or set.
LanguageRecords ==
  {Dict(<< <<"a">>, <<"b">> >> \o prof.ks \o spat.ks,
        <<Str(S_zz), Str(<<"f">>)>> \o prof.xs \o spat.xs) :
     prof \in {[ks |-> <<>>, xs |-> <<>>],
               [ks |-> << <<"edhProfile">> >>, xs |-> <<Dict(<<>>, <<>>)>>]}
              \cup {[ks |-> << <<"edhProfile">> >>,
                     xs |-> <<Dict(<< <<"language">> >>, <<l>>)>>] : l \in LanguageTexts},
     spat \in {[ks |-> <<>>, xs |-> <<>>],
               [ks |-> << <<"spatialType">> >>, xs |-> <<Str(<<"g", "r", "i", "d">>)>>]}}

\* What a call passes for base_xml_path: nothing, a skeleton of either
\* language, and the English skeleton kept in a directory named FR.
PassedPaths ==
  {NoPath, BaseXmlPath("en", FALSE), BaseXmlPath("fr", TRUE),
   <<"FR/base_", "en", "", ".xml">>}

Init ==
  /\ pc = "start"
  /\ \E id \in RecordIds, n \in 1..MaxPlaceholders :
       \/ \E m \in Mappings, a \in PrimaryVals, l \in LanguageVals :
            \E b \in IF ReadsB(m) THEN SecondaryVals ELSE {None} :
               args = [record |-> RecordOf(a, b, l), record_id |-> id, mapping |-> m,
                       base_xml_path |-> NoPath, files |-> SkeletonFiles,
                       placeholders |-> n]
       \/ \E run \in OtherRuns :
            args = [record |-> run.record, record_id |-> id, mapping |-> run.mapping,
                    base_xml_path |-> NoPath, files |-> run.files, placeholders |-> n]
       \/ \E r \in LanguageRecords, m \in {<<>>, <<E_title>>}, path \in PassedPaths :
            args = [record |-> r, record_id |-> id, mapping |-> m,
                    base_xml_path |-> path, files |-> SkeletonFiles \cup PassedPaths,
                    placeholders |-> n]
  /\ ret = Ok(NoTree)
  /\ frame = NoFrame

\* Lines 370-381: the language of the call and the path of its skeleton.
Chosen(record, base_xml_path) ==
  IF base_xml_path = NoPath
  THEN [lang |-> DocumentLanguage(record),
        path |-> BaseXmlPath(DocumentLanguage(record), IsSpatial(record))]
  ELSE [lang |-> PathLanguage(base_xml_path), path |-> base_xml_path]

\* Lines 370-386: the language and the skeleton of a call.
Loading(record, base_xml_path, files, n) ==
  LET loaded == load_base_xml(Chosen(record, base_xml_path).path, files, n)
  IN [lang |-> Chosen(record, base_xml_path).lang, exc |-> loaded.exc,
      tree |-> loaded.tree]

\* Lines 370-386: the language, the skeleton.
LoadSkeleton ==
  /\ pc = "start"
  /\ \E loaded \in {Loading(args.record, args.base_xml_path, args.files, args.placeholders)} :
       /\ frame' = Frame(loaded.lang, loaded.tree, IF loaded.exc = "" THEN 1 ELSE 0,
                         loaded.tree, None, None)
       /\ IF loaded.exc = "" THEN pc' = "fields" /\ ret' = ret
          ELSE pc' = "raised" /\ ret' = Fail(loaded.exc, loaded.tree)
  /\ UNCHANGED args

\* What a step of the loop leaves: the next entry, or the exception.
AfterStep(out, value, secondary) ==
  /\ frame' = Frame(frame.lang, out.tree,
                    IF out.exc = "" THEN frame.pos + 1 ELSE frame.pos, frame.tree,
                    value, secondary)
  /\ IF out.exc = "" THEN pc' = "fields" /\ ret' = ret
     ELSE pc' = "raised" /\ ret' = out
  /\ UNCHANGED args

\* Lines 388-400: the values of an entry.
Values(record, lang, field) ==
  [value |-> Extract(record, field, Sources(lang, field).primary),
   secondary |-> ExtractSecondary(record, field, Sources(lang, field).secondary)]

\* Lines 402-422: an entry that is no repeat, on a tree, its values given.
ScalarOutcome(given, lang, tree, field) ==
  LET value == given.value
      secondary == given.secondary
  IN IF value.exc # "" THEN Fail(value.exc, tree)
     ELSE IF secondary.exc # "" THEN Fail(secondary.exc, tree)
     ELSE IF "xpath" \notin field.keys THEN Fail("KeyError", tree)
     ELSE set_text(lang, tree, field.xpath, value.val, secondary.val)

\* Lines 424-449: an entry that is a repeat, on a tree, its values given.
RepeatOutcome(given, lang, tree, field) ==
  LET value == given.value
      secondary == given.secondary
  IN IF "container_xpath" \notin field.keys THEN Fail("ValueError", tree)
     ELSE IF value.exc # "" THEN Fail(value.exc, tree)
     ELSE IF secondary.exc # "" THEN Fail(secondary.exc, tree)
     ELSE IF {"repeat_tag", "value_xpath"} \cap field.keys # {"repeat_tag", "value_xpath"}
     THEN Fail("KeyError", tree)
     ELSE set_repeated_values(lang, tree, field.container_xpath, field.repeat_tag,
                              field.value_xpath, value.val, secondary.val)

\* Line 389 on an item that is no dict: a str has no get.
NonDictField ==
  /\ pc = "fields"
  /\ frame.pos <= Len(args.mapping)
  /\ ~IsEntry(args.mapping[frame.pos])
  /\ AfterStep(Fail("AttributeError", frame.tree), None, None)

\* Lines 388-422: one entry that is no repeat.
ScalarField ==
  /\ pc = "fields"
  /\ frame.pos <= Len(args.mapping)
  /\ IsEntry(args.mapping[frame.pos])
  /\ ~Truthy(FieldGet(args.mapping[frame.pos], "repeat"))
  /\ \E given \in {Values(args.record, frame.lang, args.mapping[frame.pos])} :
       \E out \in {ScalarOutcome(given, frame.lang, frame.tree, args.mapping[frame.pos])} :
          AfterStep(out, given.value.val, given.secondary.val)

\* Lines 388-400 and 424-449: one entry that is a repeat.
RepeatField ==
  /\ pc = "fields"
  /\ frame.pos <= Len(args.mapping)
  /\ IsEntry(args.mapping[frame.pos])
  /\ Truthy(FieldGet(args.mapping[frame.pos], "repeat"))
  /\ \E given \in {Values(args.record, frame.lang, args.mapping[frame.pos])} :
       \E out \in {RepeatOutcome(given, frame.lang, frame.tree, args.mapping[frame.pos])} :
          AfterStep(out, given.value.val, given.secondary.val)

\* Line 451, after the last entry.
Clean ==
  /\ pc = "fields"
  /\ frame.pos > Len(args.mapping)
  /\ LET out == clean_illegal_placeholders(frame.tree)
     IN /\ frame' = [frame EXCEPT !.tree = out.tree, !.prev = frame.tree]
        /\ IF out.exc = "" THEN pc' = "enforce" /\ ret' = ret
           ELSE pc' = "raised" /\ ret' = out
  /\ UNCHANGED args

\* Lines 452-454: the forced leaves, and the return.
Enforce ==
  /\ pc = "enforce"
  /\ \E now \in Timestamps :
       LET out == enforce_required_fields(frame.tree, args.record_id, now)
       IN /\ frame' = [frame EXCEPT !.tree = out, !.prev = frame.tree,
                                    !.value = Str(now)]
          /\ ret' = Ok(out)
  /\ pc' = "built"
  /\ UNCHANGED args

Next == LoadSkeleton \/ NonDictField \/ ScalarField \/ RepeatField \/ Clean \/ Enforce

Spec == Init /\ [][Next]_vars

---------------------------------------------------------------------------
(* C1 *)

\* The integer a segment of SegPool spells, read off the segment itself.
SegIsInt(seg) == seg \in {T1("0"), T1("1"), T1("7"), <<"-", "1">>, <<"-", "9">>, <<" ", "0">>}

SegInt(seg) ==
  CASE seg = T1("0") -> 0
    [] seg = T1("1") -> 1
    [] seg = T1("7") -> 7
    [] seg = <<"-", "1">> -> -1
    [] seg = <<"-", "9">> -> -9
    [] seg = <<" ", "0">> -> 0
    [] OTHER -> 0

Found(v) == [found |-> TRUE, val |-> v]

NotFound == [found |-> FALSE, val |-> None]

\* What a path designates in a record, segment by segment: nothing as soon as
\* a key is missing, an index is no integer or lies outside the list (Python
\* counts a negative index from the end), or the value met is no container.
RECURSIVE Designates(_, _)
Designates(cur, segs) ==
  IF segs = <<>> THEN Found(cur)
  ELSE
    LET seg == Head(segs) IN
      CASE cur.k = "list" ->
             IF ~SegIsInt(seg) THEN NotFound
             ELSE LET i == SegInt(seg)
                      len == Len(cur.xs)
                  IN IF i >= len \/ i < 0 - len THEN NotFound
                     ELSE Designates(cur.xs[IF i >= 0 THEN i + 1 ELSE len + i + 1],
                                     Tail(segs))
        [] cur.k = "dict" ->
             IF \A j \in 1..Len(cur.ks) : cur.ks[j] # seg THEN NotFound
             ELSE Designates(cur.xs[CHOOSE j \in 1..Len(cur.ks) : cur.ks[j] = seg],
                             Tail(segs))
        [] OTHER -> NotFound

\* C1: get_value never raises; a missing key, a non-integer or out-of-range
\* index on a list, or a null or scalar met before the last segment returns
\* default; an empty or absent path returns default whatever the record is;
\* and a path that designates a value returns that value.
C1_GetValueTotal ==
  pc = "returned" =>
    /\ ret.exc = ""
    /\ ~Truthy(args.source) => ret.val = args.default
    /\ Truthy(args.source) =>
         LET d == Designates(args.record, args.segs)
         IN ret.val = (IF d.found THEN d.val ELSE args.default)

\* A null met before the last segment ("n.i" in record A, default "en").
C1_Witness ==
  /\ pc = "returned"
  /\ args.record = GetRecordA
  /\ args.segs = <<T1("n"), T1("i")>>
  /\ args.default = Str(<<"e", "n">>)
  /\ ret = Ret(args.default)

---------------------------------------------------------------------------
(* The calls of normalize_controlled_value that are checked: SpecNorm *)

\* The longest raw list.
MaxItems == 2

UpperChar(c) ==
  IF \E i \in 1..Len(LowerCase) : LowerCase[i] = c
  THEN UpperCase[CHOOSE i \in 1..Len(LowerCase) : LowerCase[i] = c]
  ELSE c

RECURSIVE Squeeze(_)
Squeeze(t) ==
  IF t = <<>> THEN <<>>
  ELSE IF Head(t) = " " THEN Squeeze(Tail(t))
  ELSE <<Head(t)>> \o Squeeze(Tail(t))

S_UnknownTerm == <<"U", "n", "k", "n", "o", "w", "n", " ", "T", "e", "r", "m">>

\* A raw text, written from a term in one of these ways.
Written(term, how) ==
  CASE how = "exact" -> term
    [] how = "lower" -> [i \in 1..Len(term) |-> LowerChar(term[i])]
    [] how = "upper" -> [i \in 1..Len(term) |-> UpperChar(term[i])]
    [] how = "padded" -> <<" ">> \o term \o <<" ", " ">>
    [] how = "squeezed" -> Squeeze(term)

RawItem(term, how) == [term |-> term, how |-> how, val |-> Str(Written(term, how))]

OtherItem(v) == [term |-> <<>>, how |-> "other", val |-> v]

\* The raw items: terms of the vocabulary and a term of none, as the source
\* may spell them, and items that are no text or empty.
RawItems ==
  {RawItem(t, h) : t \in {S_EN, S_Ongoing, S_OngoingTest, S_Aquaculture, S_UnknownTerm},
                   h \in {"exact", "lower", "upper", "padded"}}
  \cup {RawItem(t, "squeezed") : t \in {S_OngoingTest, S_UnknownTerm}}
  \cup {OtherItem(None), OtherItem(Num(5)), OtherItem(Str(<<>>))}

KnownFields == {Str(K_language), Str(K_status), Str(K_keyword)}

UnknownFields == {Str(<<"nokey">>), None}

InitNorm ==
  /\ pc = "call"
  /\ frame = NoFrame
  /\ \E f \in KnownFields \cup UnknownFields :
       \/ \E it \in RawItems :
            args = [field |-> f, items |-> <<it>>, raw |-> it.val]
       \/ \E n \in 0..MaxItems : \E its \in [1..n -> RawItems] :
            args = [field |-> f, items |-> its,
                    raw |-> List([i \in 1..n |-> its[i].val])]
  /\ ret = Ret(None)

CallNormalize ==
  /\ pc = "call"
  /\ ret' = Ret(normalize_controlled_value(args.field, args.raw))
  /\ pc' = "returned"
  /\ UNCHANGED <<args, frame>>

NextNorm == CallNormalize

SpecNorm == InitNorm /\ [][NextNorm]_vars

---------------------------------------------------------------------------
(* C2, C3 *)

\* What the vocabulary of a field gives for an item: the canonical value
\* when the item spells one of the field's keys up to case and outer
\* blanks, and the item itself otherwise.
Canonical(field, it) ==
  LET table == DictGet(CONTROLLED_VOCAB, field.s)
  IN IF /\ it.how \in {"exact", "lower", "upper", "padded"}
        /\ \E i \in 1..Len(table.ks) : table.ks[i] = it.term
     THEN DictGet(table, it.term)
     ELSE it.val

\* C2: for a known field key and a raw value that is present, a list of N
\* items gives a list of N items, the i-th being the canonical value when
\* the i-th raw item matches a key (case folded, outer blanks trimmed) and
\* the raw item otherwise; a scalar gives a scalar by the same rule.
C2_ItemByItem ==
  (pc = "returned" /\ args.field \in KnownFields /\ args.raw.k # "none") =>
    /\ ret.exc = ""
    /\ IF args.raw.k = "list"
       THEN /\ ret.val.k = "list"
            /\ Len(ret.val.xs) = Len(args.items)
            /\ \A i \in 1..Len(args.items) :
                 ret.val.xs[i] = Canonical(args.field, args.items[i])
       ELSE /\ ret.val.k # "list"
            /\ ret.val = Canonical(args.field, args.items[1])

\* ["Aquaculture", "Unknown Term"] against keyword.
C2_Witness ==
  /\ pc = "returned"
  /\ args.field = Str(K_keyword)
  /\ args.raw = List(<<Str(S_Aquaculture), Str(S_UnknownTerm)>>)
  /\ ret.val = List(<<Str(S_aquaculture), Str(S_UnknownTerm)>>)

\* C3 as stated: for a field key that is not in the table, or no key, the
\* raw value comes back unchanged, None included.
C3_UnknownFieldUnchanged ==
  (pc = "returned" /\ args.field \in UnknownFields) => ret.val = args.raw

\* C3 as amended: for a field key that is not in the table, or no key, the
\* raw value comes back unchanged, except None, which comes back as "".
C3_UnknownFieldUnchangedButNone ==
  (pc = "returned" /\ args.field \in UnknownFields) =>
    /\ ret.exc = ""
    /\ ret.val = (IF args.raw = None THEN Str(<<>>) ELSE args.raw)

\* No key and None: the empty string comes back.
C3_Witness ==
  /\ pc = "returned"
  /\ args.field = None
  /\ args.raw = None
  /\ ret.val = Str(<<>>)

---------------------------------------------------------------------------
(* C4 *)

\* The register, read off the document by hand: the item id of each
\* (class, display name) the document gives.
ItemIdOf(class, token) ==
  CASE class = <<"IC_106">> /\ token = S_completed -> Str(<<"RI_596">>)
    [] class = <<"IC_106">> /\ token = S_onGoingName -> Str(<<"RI_602">>)
    [] class = <<"IC_106">> /\ token = S_plannedName -> Str(<<"RI_603">>)
    [] class = <<"IC_95">> /\ token = S_utf8 -> Str(<<"RI_458">>)
    [] OTHER -> None

\* C4: resolve_codelist_value never raises and returns the item id stored
\* for the exact token (the text before the first ";", trimmed) in the table
\* of the class named after the last "#"; it returns None when the
\* reference is absent or has no "#", the class is unknown or empty, the
\* token is empty, or the token has no exact match.
C4_ResolveExact ==
  pc = "returned" =>
    /\ ret.exc = ""
    /\ ret.val = (IF args.class.frags = <<>> THEN None
                  ELSE ItemIdOf(args.class.frags[Len(args.class.frags)],
                                args.display.token))

\* " onGoing  ; enContinue" against ...#IC_106 gives RI_602.
C4_Witness ==
  /\ pc = "returned"
  /\ args.class.url = Str(RegisterUrl \o <<"#", "IC_106">>)
  /\ args.display.text = Str(<<" ">> \o S_onGoingName \o <<" ", " ">> \o <<";", " ", "e", "n", "C", "o", "n", "t", "i", "n", "u", "e">>)
  /\ ret.val = Str(<<"RI_602">>)

---------------------------------------------------------------------------
(* C5 - C10: the builds *)

\* The paths of all the nodes of a document.
PathsOf(tree) == {DocOrder(tree, <<>>)[i] : i \in 1..Len(DocOrder(tree, <<>>))}

\* The qualified names of the steps of a location.
QNames(steps) == [i \in 1..Len(steps) |-> resolve_tag(steps[i])]

\* The entry the last step of the loop was about (counted from 1): the one
\* before the position after a step that returned, the one at the position
\* after a step that raised, and 0 outside the loop.
Applied ==
  IF pc = "fields" /\ frame.pos > 1 THEN frame.pos - 1
  ELSE IF /\ pc = "raised"
          /\ frame.pos \in 1..Len(args.mapping)
          /\ IsEntry(args.mapping[frame.pos])
  THEN frame.pos
  ELSE 0

\* The skeleton the build loaded.
Loaded ==
  load_base_xml(Chosen(args.record, args.base_xml_path).path, args.files,
                args.placeholders).tree

\* Whether the registry fails on the text set_text has for a leaf.
Unresolved(leaf, xpath, value) ==
  ~Truthy(resolve_codelist_value(Str(leaf.att.codeList),
                                 Str(PyStr(TextValue(xpath, value)))))

\* C5: when a scalar entry writes a value to a leaf that carries a codeList
\* attribute and the registry does not resolve the value, the step returns
\* (the build is at the next entry), and the leaf's text and codeListValue
\* are what they were before the step: what the skeleton had, when no earlier
\* entry has the leaf for target.
C5_UnresolvedLeafUntouched ==
  Applied # 0 =>
    LET field == args.mapping[Applied]
    IN (~Truthy(FieldGet(field, "repeat")) /\ ~InAbsent(frame.value)) =>
         \A q \in {p \in PathsOf(frame.prev) : TagChain(frame.prev, p) = QNames(field.xpath)} :
            LET leaf == NodeAt(frame.prev, q)
            IN (leaf.att.codeList # <<>> /\ Unresolved(leaf, field.xpath, frame.value)) =>
                 /\ pc = "fields"
                 /\ frame.pos = Applied + 1
                 /\ NodeAt(frame.tree, q).text = leaf.text
                 /\ NodeAt(frame.tree, q).att.codeListValue = leaf.att.codeListValue
                 /\ (\A j \in 1..(Applied - 1) : args.mapping[j].xpath # field.xpath)
                      => NodeAt(frame.tree, q) = NodeAt(Loaded, q)

\* The status "zz" is in no vocabulary and no register: after the first
\* entry of <<E_status, E_abstract>> the status is still "completed",
\* RI_596, and the build is at the second entry.
C5_Witness ==
  /\ pc = "fields"
  /\ frame.pos = 2
  /\ args.mapping = <<E_status, E_abstract>>
  /\ frame.value = Str(S_zz)
  /\ NodeAt(frame.tree, <<3, 1>>).text = S_completed
  /\ NodeAt(frame.tree, <<3, 1>>).att.codeListValue = <<"RI_596">>

\* An entry for one leaf and one source.
Plain(field) ==
  ~Truthy(FieldGet(field, "repeat")) /\ ~Truthy(FieldGet(field, "source_fr"))

\* normalize(key, resolve(R, path)) for a plain entry
PlainValue(field) == Extract(args.record, field, FieldGet(field, "source")).val

\* The target leaves of an entry that the returned document has.
TargetsOf(field) ==
  {p \in PathsOf(ret.tree) : TagChain(ret.tree, p) = QNames(field.xpath)}

\* (C6 as the specification states it) After build_xml, every target leaf
\* of a plain entry has the text of the value when the value is not empty
\* and the skeleton's text when it is.
C6_LeafIsValue ==
  pc = "built" =>
    \A i \in 1..Len(args.mapping) :
       LET field == args.mapping[i]
       IN Plain(field) =>
            \A q \in TargetsOf(field) :
               NodeAt(ret.tree, q).text =
                 (IF InAbsent(PlainValue(field)) THEN NodeAt(Loaded, q).text
                  ELSE PyStr(PlainValue(field)))

\* A location with a step whose text begins with "gco:Date", with "gmd:code".
OnDate(xpath) ==
  \E i \in 1..Len(xpath) : xpath[i] \in {T_Date, T_DateTime}

OnCode(xpath) ==
  \E i \in 1..Len(xpath) : xpath[i] = T_code

\* The text a date or code location gets for a value: "" for a falsy
\* value, the calendar date of an ISO date-time, "EPSG:" for "EPSG-" in a
\* text that begins with "EPSG", and str(value) for the rest.
WrittenText(xpath, value) ==
  IF ~(OnDate(xpath) \/ OnCode(xpath)) THEN PyStr(value)
  ELSE IF ~Truthy(value) THEN <<>>
  ELSE IF OnDate(xpath) /\ value = Str(S_DateTime) THEN <<"2025-11-19">>
  ELSE IF OnCode(xpath) /\ value = Str(S_Epsg) THEN <<"EPSG", ":", "4", "3", "2", "6">>
  ELSE PyStr(value)

\* The forced leaves of a document: the first gco:CharacterString of a
\* gmd:fileIdentifier and the first gco:DateTime of a gmd:dateStamp.
ForcedLeaves == {<<1, 1>>, <<2, 1>>}

\* Whether another entry of the mapping has the location of entry i.
Shared(i) ==
  \E j \in 1..Len(args.mapping) :
     j # i /\ args.mapping[j].xpath = args.mapping[i].xpath

\* C6: after build_xml, a target leaf of a plain entry that is still in the
\* document, is not a forced leaf and is at no other entry's location has
\* the skeleton's text when the value is None, "" or [], and when it has a
\* codeList that the registry does not resolve for the value; else it has
\* str of the value, after the date normalisation at a location containing
\* "/gco:Date" and the code normalisation at one containing "/gmd:code".
\* (The skeleton's one codeList refers to the class IC_106.)
C6_LeafIsNormalizedValue ==
  pc = "built" =>
    \A i \in 1..Len(args.mapping) :
       LET field == args.mapping[i]
       IN (Plain(field) /\ ~Shared(i)) =>
            \A q \in TargetsOf(field) \ ForcedLeaves :
               LET text == WrittenText(field.xpath, PlainValue(field))
                   leaf == NodeAt(Loaded, q)
               IN NodeAt(ret.tree, q).text =
                    (IF InAbsent(PlainValue(field)) THEN leaf.text
                     ELSE IF leaf.att.codeList # <<>>
                             /\ ItemIdOf(<<"IC_106">>, Strip(Split(text, ";")[1])) = None
                     THEN leaf.text
                     ELSE text)

\* A date-time at the date location leaves the calendar date.
C6_Witness ==
  /\ pc = "built"
  /\ args.mapping = <<E_date>>
  /\ DictGet(args.record, <<"a">>) = Str(S_DateTime)
  /\ NodeAt(ret.tree, <<5, 1, 1, 1>>).text = <<"2025-11-19">>

\* The container of the repeat entry the last step was about, in the
\* document before the step; <<>> for none.
ContainerOf(field) ==
  LET found == XPathAbs(frame.prev, field.container_xpath)
  IN IF found = <<>> THEN <<>> ELSE <<found[1]>>

\* The positions of the children of a name.
Positions(kids, qname) == {j \in 1..Len(kids) : kids[j].tag = qname}

\* The last step was a repeat entry whose container has a placeholder.
RepeatStep ==
  /\ Applied # 0
  /\ Truthy(FieldGet(args.mapping[Applied], "repeat"))
  /\ ContainerOf(args.mapping[Applied]) # <<>>
  /\ Positions(NodeAt(frame.prev, ContainerOf(args.mapping[Applied])[1]).kids,
               resolve_tag(args.mapping[Applied].repeat_tag)) # {}

\* The children of the container before and after the step, the name of
\* the repeated element and the position of the first placeholder.
Was == NodeAt(frame.prev, ContainerOf(args.mapping[Applied])[1]).kids

Now == NodeAt(frame.tree, ContainerOf(args.mapping[Applied])[1]).kids

Repeat == resolve_tag(args.mapping[Applied].repeat_tag)

First == CHOOSE j \in Positions(Was, Repeat) : \A h \in Positions(Was, Repeat) : j <= h

\* The text of the value leaf of an instance: the leaf is the first child
\* of a placeholder of the skeletons.
ValueText(instance) == instance.kids[1].text

\* The secondary text of an instance and its locale: in the second child.
SecondaryNode(instance) == instance.kids[2].kids[1]

\* C7: after set_repeated_values for a list of N >= 1 values, a container
\* and at least one placeholder, the step has returned, the container holds
\* N elements of the repeated name, at the N positions from the first
\* placeholder's on, the i-th with str of the i-th value in its value leaf,
\* and its other children are as before, in their order.
C7_OneInstancePerItem ==
  (RepeatStep /\ frame.value.k = "list" /\ frame.value.xs # <<>>) =>
    LET N == Len(frame.value.xs)
    IN /\ pc = "fields"
       /\ Positions(Now, Repeat) = First..(First + N - 1)
       /\ \A i \in 1..N : ValueText(Now[First + i - 1]) = PyStr(frame.value.xs[i])
       /\ RemoveNamed(Now, Repeat) = RemoveNamed(Was, Repeat)

\* Two placeholders, one before and one after gmd:purpose, and the values
\* ["Aquaculture", "zz"]: abstract, aquaculture, zz, purpose.
C7_Witness ==
  /\ pc = "fields"
  /\ frame.pos = 2
  /\ args.mapping[1] = E_topic
  /\ args.placeholders = 2
  /\ frame.value = List(<<Str(S_aquaculture), Str(S_zz)>>)
  /\ Len(NodeAt(frame.prev, <<7>>).kids) = 4
  /\ NodeAt(frame.prev, <<7, 4>>).tag = resolve_tag(T_topicCategory)
  /\ Len(NodeAt(frame.tree, <<7>>).kids) = 4
  /\ NodeAt(frame.tree, <<7, 2, 1>>).text = S_aquaculture
  /\ NodeAt(frame.tree, <<7, 3, 1>>).text = S_zz
  /\ NodeAt(frame.tree, <<7, 4>>).tag = resolve_tag(T_purpose)

\* C8 (as the specification states it): a repeat entry whose value is a
\* text, a number or a dict gives one instance of the repeated element with
\* str of the value, and the step does not raise.
C8_ScalarIsOneItem ==
  (RepeatStep /\ frame.value.k \in {"str", "num", "dict"} /\ Truthy(frame.value)) =>
    /\ pc = "fields"
    /\ Positions(Now, Repeat) = {First}
    /\ ValueText(Now[First]) = PyStr(frame.value)

\* C9: after set_repeated_values for a list of N values and a list of
\* M < N secondary values, the step has returned (no read of the secondary
\* list out of its range, which raises IndexError); instance i < M has the
\* i-th secondary value as its secondary text, with the secondary locale,
\* when that value is truthy; the other instances have the secondary text
\* and locale of the placeholder.
C9_ShortSecondaryList ==
  (/\ RepeatStep
   /\ frame.value.k = "list"
   /\ frame.secondary.k = "list"
   /\ Len(frame.secondary.xs) < Len(frame.value.xs)) =>
    /\ pc = "fields"
    /\ \A i \in 1..Len(frame.value.xs) :
          SecondaryNode(Now[First + i - 1]) =
            (IF i <= Len(frame.secondary.xs) /\ Truthy(frame.secondary.xs[i])
             THEN [SecondaryNode(Was[First]) EXCEPT
                     !.text = PyStr(frame.secondary.xs[i]),
                     !.att.locale = IF frame.lang = "en" THEN <<"#", "fra">>
                                    ELSE <<"#", "eng">>]
             ELSE SecondaryNode(Was[First]))

\* Two keywords and one secondary text: the first instance has it, the
\* second has none.
C9_Witness ==
  /\ pc = "fields"
  /\ frame.pos = 2
  /\ frame.lang = "en"
  /\ args.mapping[1] = E_keyword
  /\ frame.value = List(<<Str(S_zz), Str(S_Aquaculture)>>)
  /\ frame.secondary = List(<<Str(<<"f">>)>>)
  /\ NodeAt(frame.tree, <<8, 1, 2, 1>>).text = <<"f">>
  /\ NodeAt(frame.tree, <<8, 2, 1>>).text = S_Aquaculture
  /\ NodeAt(frame.tree, <<8, 2, 2, 1>>).text = <<>>

\* C10: when build_xml returns, the last step was the forcing: the document
\* returned is the document of that step, its record-identifier leaf has
\* str(record_id) and its generation-timestamp leaf the timestamp computed
\* in that step with "Z" after it.
C10_ForcedLast ==
  pc = "built" =>
    /\ ret.exc = ""
    /\ ret.tree = frame.tree
    /\ TagChain(ret.tree, <<1, 1>>) =
         QNames(<<T_MD_Metadata, T_fileIdentifier, T_CharacterString>>)
    /\ NodeAt(ret.tree, <<1, 1>>).text = PyStr(args.record_id)
    /\ TagChain(ret.tree, <<2, 1>>) =
         QNames(<<T_MD_Metadata, T_dateStamp, T_DateTime>>)
    /\ NodeAt(ret.tree, <<2, 1>>).text = frame.value.s \o <<"Z">>
    /\ frame.value.s \in Timestamps

\* The entries wrote "zz" to both leaves, and the document returned has
\* "42" and the timestamp.
C10_Witness ==
  /\ pc = "built"
  /\ args.mapping = <<E_id, E_stamp>>
  /\ NodeAt(frame.prev, <<1, 1>>).text = S_zz
  /\ NodeAt(frame.prev, <<2, 1>>).text = S_zz
  /\ NodeAt(ret.tree, <<1, 1>>).text = <<"4", "2">>
  /\ NodeAt(ret.tree, <<2, 1>>).text = <<"2026-03-01", "T", "10:00:00.000001", "Z">>

\* ---------------------------------------------------------------------
\* C11, C12: what makes a build raise
\* ---------------------------------------------------------------------

\* The build is of the configured mapping, as harvester.py passes it.
Configured == args.mapping = Fields(FIELD_MAPPING)

\* C11: building a document from an empty record with the configured
\* mapping never raises.
C11_EmptyRecordBuilds ==
  (Configured /\ args.record = EmptyRecord) => pc # "raised"

\* A mapping of entries that have the keys their kind is read by.
WellFormed(mapping) ==
  \A i \in 1..Len(mapping) :
     /\ IsEntry(mapping[i])
     /\ IF Truthy(FieldGet(mapping[i], "repeat"))
        THEN {"container_xpath", "repeat_tag", "value_xpath"} \subseteq mapping[i].keys
        ELSE "xpath" \in mapping[i].keys

\* C12: with a well-formed mapping and an existing skeleton, no value at
\* a mapped path makes the build raise.
C12_NoValueRaises ==
  (WellFormed(args.mapping) /\ args.files = SkeletonFiles) => pc # "raised"

\* ---------------------------------------------------------------------
\* C13: a controlled value on a code-list leaf
\* ---------------------------------------------------------------------

\* The raw value of the entry that was applied: what the record has at
\* the entry's primary source.
RawValue(field) == get_value(args.record, Sources(frame.lang, field).primary, None).val

\* The canonical strings of a vocabulary for a raw text: the values of
\* CONTROLLED_VOCAB at the keys that are the text but for case and
\* surrounding blanks.
CanonicalOf(vocab_key, raw) ==
  LET table == DictGet(CONTROLLED_VOCAB, vocab_key)
  IN IF table.k # "dict" THEN {}
     ELSE {table.xs[i].s : i \in {j \in 1..Len(table.ks) :
                                    Lower(table.ks[j]) = Lower(Strip(raw))}}

\* The leading token of a bilingual string: what is before its ";".
LeadingToken(text) ==
  Strip(IF IndexOf(text, ";") = 0 THEN text ELSE SubSeq(text, 1, IndexOf(text, ";") - 1))

\* C13: when a scalar entry with a vocabulary key is applied to a leaf
\* that carries a codeList attribute, and the raw value normalizes to a
\* canonical string whose leading token is in the register table of the
\* leaf's class, the leaf's text is the canonical string and its
\* codeListValue is the item id of that token.
C13_CanonicalOnCodeListLeaf ==
  Applied # 0 =>
    LET field == args.mapping[Applied]
    IN (/\ ~Truthy(FieldGet(field, "repeat"))
        /\ FieldGet(field, "controlled").k = "str"
        /\ RawValue(field).k = "str") =>
         \A canon \in CanonicalOf(FieldGet(field, "controlled").s, RawValue(field).s) :
            \A q \in {p \in PathsOf(frame.prev) :
                        TagChain(frame.prev, p) = QNames(field.xpath)} :
               LET leaf == NodeAt(frame.prev, q)
                   id == ItemIdOf(ClassId(leaf.att.codeList), LeadingToken(canon))
               IN (leaf.att.codeList # <<>> /\ id # None) =>
                    /\ pc = "fields"
                    /\ NodeAt(frame.tree, q).text = canon
                    /\ NodeAt(frame.tree, q).att.codeListValue = id.s

\* The record has "Ongoing" at the source of E_status: after the entry
\* the status leaf reads "onGoing; enContinue" with the item id RI_602,
\* where the skeleton had "completed" and RI_596.
C13_Witness ==
  /\ Applied = 1
  /\ args.mapping[1] = E_status
  /\ RawValue(E_status) = Str(S_Ongoing)
  /\ NodeAt(frame.prev, <<3, 1>>).att.codeListValue = <<"RI_596">>
  /\ NodeAt(frame.tree, <<3, 1>>).text = S_onGoing
  /\ NodeAt(frame.tree, <<3, 1>>).att.codeListValue = <<"RI_602">>

\* ---------------------------------------------------------------------
\* C14: an entry with a literal
\* ---------------------------------------------------------------------

\* C14: a scalar entry that has a literal "text" leaves that literal on
\* its target leaf, whatever the record has at the entry's source, and its
\* "text_fr" on the localised string beside the leaf.
C14_LiteralWritten ==
  Applied # 0 =>
    LET field == args.mapping[Applied]
    IN (~Truthy(FieldGet(field, "repeat")) /\ "text" \in field.keys) =>
         \A q \in {p \in PathsOf(frame.tree) :
                     TagChain(frame.tree, p) = QNames(field.xpath)} :
            /\ NodeAt(frame.tree, q).text = Literal(field, "text").s
            /\ "text_fr" \in field.keys =>
                 \A l \in {p \in PathsOf(frame.tree) :
                             /\ IsPrefix(Parent(q), p)
                             /\ NodeAt(frame.tree, p).tag = resolve_tag(T_Localised)} :
                    NodeAt(frame.tree, l).text = Literal(field, "text_fr").s

\* ---------------------------------------------------------------------
\* C15: a repeat entry whose repeat tag is not in its target location
\* ---------------------------------------------------------------------

\* A repeat entry is placed when it names a container and its repeat tag
\* is the tag of a child of that container in the skeleton.
Placed(field, tree) ==
  /\ "container_xpath" \in field.keys
  /\ \A c \in {p \in PathsOf(tree) : TagChain(tree, p) = QNames(field.container_xpath)} :
        \E i \in 1..Len(NodeAt(tree, c).kids) :
           NodeAt(tree, c).kids[i].tag = resolve_tag(field.repeat_tag)

\* The repeat entries of the mapping that are not placed.
Misplaced ==
  {i \in 1..Len(args.mapping) :
     /\ IsEntry(args.mapping[i])
     /\ Truthy(FieldGet(args.mapping[i], "repeat"))
     /\ ~Placed(args.mapping[i], Skeleton("en", FALSE, args.placeholders))}

\* C15: a mapping with a repeat entry that is not placed is rejected
\* before a record is processed: no build with it loads a skeleton,
\* applies an entry, raises or returns.
C15_RejectedAtLoad == Misplaced # {} => pc = "start"

\* ---------------------------------------------------------------------
\* C16: the missing skeleton
\* ---------------------------------------------------------------------

\* The skeleton file of the record's language and kind is not there.
SkeletonMissing ==
  Chosen(args.record, args.base_xml_path).path \notin args.files

\* With a missing skeleton the build raises at the load, before an entry.
FailsAtLoad ==
  (SkeletonMissing /\ pc # "start") =>
     /\ pc = "raised"
     /\ ret.exc = "FileNotFoundError"
     /\ frame.pos = 0
     /\ ret.tree = NoTree

\* C16: a missing skeleton file makes the build raise before any entry is
\* applied, and a build raises under no other condition.
C16_OnlyMissingSkeletonRaises ==
  /\ FailsAtLoad
  /\ pc = "raised" => SkeletonMissing

\* ---------------------------------------------------------------------
\* C19: what the pruning step leaves
\* ---------------------------------------------------------------------

\* The pruning step is done.
Pruned == pc \in {"enforce", "built"}

\* The date leaves without text that a tree has.
EmptyDates(tree) ==
  {p \in PathsOf(tree) :
     NodeAt(tree, p).tag = resolve_tag(T_Date) /\ Blank(NodeAt(tree, p).text)}

\* The repeat-group elements of an entry that have no leaf with text: the
\* children of a container, of the entry's repeat tag, under which no
\* element of the entry's value tag has text.
EmptyGroups(tree, field) ==
  {p \in PathsOf(tree) :
     /\ p # <<>>
     /\ TagChain(tree, Parent(p)) = QNames(field.container_xpath)
     /\ NodeAt(tree, p).tag = resolve_tag(field.repeat_tag)
     /\ \A q \in PathsOf(tree) :
           (IsPrefix(p, q) /\ NodeAt(tree, q).tag = resolve_tag(field.value_xpath))
              => Blank(NodeAt(tree, q).text)}

\* After the pruning step no date leaf is without text.
NoEmptyDate == Pruned => EmptyDates(frame.tree) = {}

\* C19: after the pruning step the document has no date container whose
\* date leaf has no text and, for every repeat entry of the mapping, no
\* repeat-group element whose leaf has no text.
C19_NoEmptyGroupLeft ==
  Pruned =>
    /\ EmptyDates(frame.tree) = {}
    /\ \A i \in 1..Len(args.mapping) :
          (/\ IsEntry(args.mapping[i])
           /\ Truthy(FieldGet(args.mapping[i], "repeat"))
           /\ "container_xpath" \in args.mapping[i].keys)
             => EmptyGroups(frame.tree, args.mapping[i]) = {}

\* ---------------------------------------------------------------------
\* C20: the secondary text of a scalar entry
\* ---------------------------------------------------------------------

\* The localised strings under the parent of a leaf, in document order.
Carriers(tree, q) ==
  SelectSeq(DocOrder(tree, <<>>),
            LAMBDA p : /\ IsPrefix(Parent(q), p)
                       /\ p # Parent(q)
                       /\ NodeAt(tree, p).tag = resolve_tag(T_Localised))

\* The locale opposite to the document language.
Opposite == IF frame.lang = "fr" THEN <<"#", "eng">> ELSE <<"#", "fra">>

\* The first localised string beside the leaf q has the secondary value of
\* the step, with the opposite locale.
SecondaryAt(q) ==
  LET first == Carriers(frame.prev, q)[1]
  IN /\ NodeAt(frame.tree, first).text = PyStr(frame.secondary)
     /\ NodeAt(frame.tree, first).att.locale = Opposite

\* The scalar entry that was applied, with a secondary value that is not
\* None, "" or [].
ScalarWithSecondary ==
  /\ Applied # 0
  /\ pc = "fields"
  /\ ~Truthy(FieldGet(args.mapping[Applied], "repeat"))
  /\ ~InAbsent(frame.secondary)

\* The leaves the applied entry has for target, with a localised string
\* beside them.
BilingualTargets ==
  {q \in PathsOf(frame.prev) :
     /\ TagChain(frame.prev, q) = QNames(args.mapping[Applied].xpath)
     /\ Carriers(frame.prev, q) # <<>>}

---------------------------------------------------------------------------
(* xml_builder.py: build_xml as one function of its arguments *)

\* Lines 388-449: the body of the loop for one item of the mapping.
FieldOutcome(record, lang, tree, field) ==
  IF ~IsEntry(field) THEN Fail("AttributeError", tree)
  ELSE IF Truthy(FieldGet(field, "repeat"))
  THEN RepeatOutcome(Values(record, lang, field), lang, tree, field)
  ELSE ScalarOutcome(Values(record, lang, field), lang, tree, field)

\* Lines 388-449: the loop, from the k-th item on.
RECURSIVE ApplyFields(_, _, _, _, _)
ApplyFields(record, lang, tree, fields, k) ==
  IF k > Len(fields) THEN Ok(tree)
  ELSE CHOOSE r \in {IF out.exc # "" THEN out
                     ELSE ApplyFields(record, lang, out.tree, fields, k + 1) :
                       out \in {FieldOutcome(record, lang, tree, fields[k])}} : TRUE

\* Lines 451-454 on the tree the loop leaves.
Finished(applied, record_id, now) ==
  IF applied.exc # "" THEN applied
  ELSE CHOOSE r \in {IF cleaned.exc # "" THEN cleaned
                     ELSE Ok(enforce_required_fields(cleaned.tree, record_id, now)) :
                       cleaned \in {clean_illegal_placeholders(applied.tree)}} : TRUE

\* build_xml(record, record_id, mapping), base_xml_path left None, with
\* the files that exist, the placeholders of the skeleton and the time
\* of the clock: the tree returned, or the exception raised.
build_xml(record, record_id, mapping, files, n, now) ==
  CHOOSE r \in {IF loaded.exc # "" THEN Fail(loaded.exc, NoTree)
                ELSE Finished(ApplyFields(record, loaded.lang, loaded.tree,
                                          Fields(mapping), 1),
                              record_id, now) :
                  loaded \in {Loading(record, NoPath, files, n)}} : TRUE

---------------------------------------------------------------------------
(* harvester.py *)

\* record.get(key, default) of a value that may be no dict.
GetOr(d, key, default) ==
  IF d.k # "dict" THEN Raise("AttributeError")
  ELSE IF \E i \in 1..Len(d.ks) : d.ks[i] = key THEN Ret(DictGet(d, key))
  ELSE Ret(default)

\* value[0]
First0(value) ==
  CASE value.k = "list" -> IF value.xs = <<>> THEN Raise("IndexError") ELSE Ret(value.xs[1])
    [] value.k = "str" -> IF value.s = <<>> THEN Raise("IndexError")
                          ELSE Ret(Str(<<value.s[1]>>))
    [] value.k = "dict" -> Raise("KeyError")
    [] OTHER -> Raise("TypeError")

\* extract_record_id(record), uuid being str(uuid.uuid4()).
extract_record_id(record, uuid) ==
  LET files == GetOr(record, <<"files">>, List(<<Dict(<<>>, <<>>)>>))
  IN IF files.exc # "" THEN files
     ELSE IF First0(files.val).exc # "" THEN First0(files.val)
     ELSE GetOr(First0(files.val).val, <<"id">>, uuid)

---------------------------------------------------------------------------
(* The runs of generate_xml that are checked: SpecHarvest *)

\* The most records a response has.
MaxRecords == 2

\* The records of a response: "files" absent, null, empty, with a first
\* file without an id, and with a first file that has one.
HarvestRecords ==
  {EmptyRecord,
   Dict(<< <<"files">> >>, <<None>>),
   Dict(<< <<"files">> >>, <<List(<<>>)>>),
   Dict(<< <<"files">> >>, <<List(<<Dict(<<>>, <<>>)>>)>>),
   Dict(<< <<"files">> >>, <<List(<<Dict(<< <<"id">> >>, <<Num(42)>>)>>)>>)}

\* What response.json() is: a dict with the records at "data", or without
\* that key.
Responses ==
  {Dict(<< <<"data">> >>, <<List(rs)>>) :
     rs \in UNION {[1..n -> HarvestRecords] : n \in 0..MaxRecords}}
  \cup {Dict(<<>>, <<>>)}

\* What uuid.uuid4() gives.
Uuids == {Str(<<"u1">>), Str(<<"u2">>)}

\* The position in generate_xml: the records, the index of the next one,
\* the id of the last one, and the files written.
Harvest(records, pos, record_id, written) ==
  [records |-> records, pos |-> pos, record_id |-> record_id, written |-> written]

InitHarvest ==
  /\ pc = "fetch"
  /\ \E raw \in Responses, up \in BOOLEAN, n \in 1..MaxPlaceholders :
       args = [raw |-> raw, reachable |-> up, files |-> SkeletonFiles,
               placeholders |-> n]
  /\ ret = Ok(NoTree)
  /\ frame = Harvest(<<>>, 0, None, <<>>)

\* Lines 11-12: fetch_json raises RuntimeError when the request fails;
\* records = raw.get("data", []).
Fetch ==
  /\ pc = "fetch"
  /\ IF ~args.reachable
     THEN pc' = "raised" /\ ret' = Fail("RuntimeError", NoTree) /\ frame' = frame
     ELSE /\ pc' = "records"
          /\ ret' = ret
          /\ frame' = Harvest(GetOr(args.raw, <<"data">>, List(<<>>)).val.xs, 1, None, <<>>)
  /\ UNCHANGED args

\* Lines 16-22 for one record: the id, the build with FIELD_MAPPING, the
\* file written.  An exception ends generate_xml.
HarvestRecord ==
  /\ pc = "records"
  /\ frame.pos <= Len(frame.records)
  /\ \E uuid \in Uuids, now \in Timestamps :
       \E id \in {extract_record_id(frame.records[frame.pos], uuid)} :
          IF id.exc # ""
          THEN pc' = "raised" /\ ret' = Fail(id.exc, NoTree) /\ frame' = frame
          ELSE \E xml_tree \in {build_xml(frame.records[frame.pos], id.val, FIELD_MAPPING,
                                          args.files, args.placeholders, now)} :
                  IF xml_tree.exc # ""
                  THEN /\ pc' = "raised"
                       /\ ret' = xml_tree
                       /\ frame' = [frame EXCEPT !.record_id = id.val]
                  ELSE /\ pc' = pc
                       /\ ret' = ret
                       /\ frame' = Harvest(frame.records, frame.pos + 1, id.val,
                                           Append(frame.written,
                                                  [name |-> PyStr(id.val),
                                                   record |-> frame.records[frame.pos],
                                                   tree |-> xml_tree.tree]))
  /\ UNCHANGED args

\* The end of the loop.
HarvestDone ==
  /\ pc = "records"
  /\ frame.pos > Len(frame.records)
  /\ pc' = "done"
  /\ UNCHANGED <<args, ret, frame>>

NextHarvest == Fetch \/ HarvestRecord \/ HarvestDone

SpecHarvest == InitHarvest /\ [][NextHarvest]_vars

\* ---------------------------------------------------------------------
\* C18: one document per record
\* ---------------------------------------------------------------------

\* The records the response has.
Fetched == GetOr(args.raw, <<"data">>, List(<<>>)).val.xs

\* C18: when the request succeeds, generate_xml ends without an exception
\* and has written one document per record of the response, in the order
\* of the response, whatever the record has at "files".
C18_OneDocumentPerRecord ==
  (args.reachable /\ pc \in {"done", "raised"}) =>
     /\ pc = "done"
     /\ Len(frame.written) = Len(Fetched)
     /\ \A i \in 1..Len(Fetched) : frame.written[i].record = Fetched[i]

---------------------------------------------------------------------------
(* Builds of two records that take turns: SpecPar *)

\* The builds.
Builds == {1, 2}

\* The tables of the modules, as the imports leave them:
\* CODELIST_REGISTRY = _load_codelists(),
\* NORMALIZED_VOCAB = _normalize_vocab(CONTROLLED_VOCAB).
Tables == [registry |-> _load_codelists, vocab |-> _normalize_vocab(CONTROLLED_VOCAB)]

\* (one parsed tree kept and handed to every build)
ParseShared(heap, tree) ==
  IF heap = <<>> THEN [ref |-> 1, heap |-> <<tree>>] ELSE [ref |-> 1, heap |-> heap]

\* etree.parse(path, parser) returns a tree of its own: a new object among
\* the tree objects there are.
Parse(heap, tree) == [ref |-> Len(heap) + 1, heap |-> Append(heap, tree)]

\* The mappings and the records of the builds that take turns.
ParMappings == {<<E_status, E_title>>, <<E_topic, E_keyword>>, <<E_date, E_abstract>>}

ParRecords ==
  {RecordOf(a, Str(<<"f">>), None) :
     a \in {None, Str(S_Ongoing), Str(S_DateTime), Num(5), List(<<Str(S_Aquaculture)>>)}}

\* A build's position: its language, its tree object, its next entry.
Build(lang, ref, pos) == [lang |-> lang, ref |-> ref, pos |-> pos]

InitPar ==
  /\ pc = [b \in Builds |-> "start"]
  /\ \E m \in ParMappings, r1 \in ParRecords, r2 \in ParRecords :
       /\ r1 # r2
       /\ args = [records |-> <<r1, r2>>, record_ids |-> <<Num(42), Num(43)>>,
                  mapping |-> m, files |-> SkeletonFiles, placeholders |-> 1]
  /\ ret = [b \in Builds |-> Ok(NoTree)]
  /\ frame = [tables |-> Tables, heap |-> <<>>,
              builds |-> [b \in Builds |-> Build("", 0, 0)]]

\* Lines 370-386 of the build b.
ParLoad(b) ==
  /\ pc[b] = "start"
  /\ \E loaded \in {Loading(args.records[b], NoPath, args.files, args.placeholders)} :
       IF loaded.exc # ""
       THEN /\ pc' = [pc EXCEPT ![b] = "raised"]
            /\ ret' = [ret EXCEPT ![b] = Fail(loaded.exc, NoTree)]
            /\ frame' = frame
       ELSE \E made \in {Parse(frame.heap, loaded.tree)} :
               /\ pc' = [pc EXCEPT ![b] = "fields"]
               /\ ret' = ret
               /\ frame' = [frame EXCEPT !.heap = made.heap,
                                         !.builds[b] = Build(loaded.lang, made.ref, 1)]
  /\ UNCHANGED args

\* Lines 388-449 of the build b, for its next entry: the entry works on
\* the build's own tree object.
ParField(b) ==
  /\ pc[b] = "fields"
  /\ frame.builds[b].pos <= Len(args.mapping)
  /\ \E own \in {frame.builds[b]} :
       \E out \in {FieldOutcome(args.records[b], own.lang, frame.heap[own.ref],
                                args.mapping[own.pos])} :
          /\ frame' = [frame EXCEPT !.heap[own.ref] = out.tree,
                                    !.builds[b].pos = IF out.exc = "" THEN @ + 1 ELSE @]
          /\ IF out.exc = "" THEN pc' = pc /\ ret' = ret
             ELSE /\ pc' = [pc EXCEPT ![b] = "raised"]
                  /\ ret' = [ret EXCEPT ![b] = out]
  /\ UNCHANGED args

\* Line 451 of the build b.
ParClean(b) ==
  /\ pc[b] = "fields"
  /\ frame.builds[b].pos > Len(args.mapping)
  /\ \E own \in {frame.builds[b]} :
       \E out \in {clean_illegal_placeholders(frame.heap[own.ref])} :
          /\ frame' = [frame EXCEPT !.heap[own.ref] = out.tree]
          /\ IF out.exc = "" THEN pc' = [pc EXCEPT ![b] = "enforce"] /\ ret' = ret
             ELSE /\ pc' = [pc EXCEPT ![b] = "raised"]
                  /\ ret' = [ret EXCEPT ![b] = out]
  /\ UNCHANGED args

\* Lines 452-454 of the build b.
ParEnforce(b) ==
  /\ pc[b] = "enforce"
  /\ \E now \in Timestamps, own \in {frame.builds[b]} :
       \E out \in {enforce_required_fields(frame.heap[own.ref], args.record_ids[b], now)} :
          /\ frame' = [frame EXCEPT !.heap[own.ref] = out]
          /\ ret' = [ret EXCEPT ![b] = Ok(out)]
  /\ pc' = [pc EXCEPT ![b] = "built"]
  /\ UNCHANGED args

NextPar == \E b \in Builds : ParLoad(b) \/ ParField(b) \/ ParClean(b) \/ ParEnforce(b)

SpecPar == InitPar /\ [][NextPar]_vars

\* ---------------------------------------------------------------------
\* C17: builds that take turns
\* ---------------------------------------------------------------------

\* What the build b has when it runs alone, after its first k entries.
Alone(b, k) ==
  LET loaded == Loading(args.records[b], NoPath, args.files, args.placeholders)
  IN ApplyFields(args.records[b], loaded.lang, loaded.tree, SubSeq(args.mapping, 1, k), 1)

\* What the build b returns or raises when it runs alone, by the clock.
AloneBuilt(b) ==
  {build_xml(args.records[b], args.record_ids[b], List(args.mapping), args.files,
             args.placeholders, now) : now \in Timestamps}

\* C17: the registry and the normalized vocabulary are what the imports
\* built, in every state; and under every interleaving of the steps of
\* two builds, the tree of each build is, after each of its steps, the
\* tree the build has at that step when it runs alone, so no build
\* changes the tree of the other, and what a build returns or raises is
\* what it returns or raises alone, but for the time of the clock.
C17_BuildsDoNotInterfere ==
  /\ frame.tables = [registry |-> CODELIST_REGISTRY, vocab |-> NORMALIZED_VOCAB]
  /\ \A b \in Builds :
        LET own == frame.builds[b]
        IN /\ pc[b] = "fields" => frame.heap[own.ref] = Alone(b, own.pos - 1).tree
           /\ pc[b] = "enforce" =>
                frame.heap[own.ref] =
                  clean_illegal_placeholders(Alone(b, Len(args.mapping)).tree).tree
           /\ pc[b] \in {"built", "raised"} => ret[b] \in AloneBuilt(b)
  /\ (pc[1] # "start" /\ pc[2] # "start" /\ frame.builds[1].ref # 0 /\ frame.builds[2].ref # 0)
        => frame.builds[1].ref # frame.builds[2].ref

\* Both builds are in their loops over <<E_status, E_title>>, the first
\* with "Ongoing" past the status entry, the second with no value: the
\* status of the first tree is RI_602, that of the second still RI_596.
C17_Witness ==
  /\ pc = [b \in Builds |-> "fields"]
  /\ args.mapping = <<E_status, E_title>>
  /\ frame.builds[1].pos = 2
  /\ frame.builds[2].pos = 2
  /\ NodeAt(frame.heap[frame.builds[1].ref], <<3, 1>>).att.codeListValue = <<"RI_602">>
  /\ NodeAt(frame.heap[frame.builds[2].ref], <<3, 1>>).att.codeListValue = <<"RI_596">>

\* ---------------------------------------------------------------------
\* C21: the language of the document
\* ---------------------------------------------------------------------

\* What the record has at "edhProfile" and then "language"; Absent when a
\* key is missing.
Absent == [k |-> "absent", n |-> 0, s |-> <<>>, ks |-> <<>>, xs |-> <<>>]

LanguageField ==
  LET HasKey(d, key) == d.k = "dict" /\ \E i \in 1..Len(d.ks) : d.ks[i] = key
  IN IF ~HasKey(args.record, <<"edhProfile">>) THEN Absent
     ELSE IF ~HasKey(DictGet(args.record, <<"edhProfile">>), <<"language">>) THEN Absent
     ELSE DictGet(DictGet(args.record, <<"edhProfile">>), <<"language">>)

\* French when the field, as a text, trimmed and in lower case, starts
\* with "fr"; English otherwise, and when the field is absent.
FieldLanguage ==
  LET text == Lower(Strip(PyStr(LanguageField)))
  IN IF LanguageField # Absent /\ Len(text) >= 2 /\ SubSeq(text, 1, 2) = <<"f", "r">>
     THEN "fr" ELSE "en"

\* The record's spatial flag.
SpatialFlag ==
  /\ \E i \in 1..Len(args.record.ks) : args.record.ks[i] = <<"spatialType">>
  /\ Truthy(DictGet(args.record, <<"spatialType">>))

\* The skeleton is loaded and no entry is applied yet.
JustLoaded == pc = "fields" /\ frame.pos = 1

\* The language and the skeleton are those of the record's language field
\* and spatial flag.
ByRecord ==
  /\ pc # "start" => frame.lang = FieldLanguage
  /\ JustLoaded => frame.tree = Skeleton(FieldLanguage, SpatialFlag, args.placeholders)

\* The text of the path that is passed has "fr", in either case.
PathHasFr ==
  LET t == PathText(args.base_xml_path)
  IN \E i \in 1..(Len(t) - 1) : t[i] \in {"f", "F"} /\ t[i + 1] \in {"r", "R"}

\* C21 as stated: in every call the language is computed from the
\* record's language field alone, and it selects the skeleton together
\* with the spatial flag.
C21_LanguageFromRecord == ByRecord

\* C21: in a call without base_xml_path the language is French when the
\* record's language field, as a text, trimmed and lower-cased, starts
\* with "fr", and English when it is absent, null or anything else; it is
\* set when the skeleton is loaded, before any entry, and the skeleton is
\* the one of that language and of the record's spatial flag.  In a call
\* with base_xml_path the language is French when the path has "fr" in
\* any case and English otherwise, and the skeleton is the file at the
\* path, whatever the record says.
C21_LanguageFromRecordOrPath ==
  IF args.base_xml_path = NoPath THEN ByRecord
  ELSE /\ pc # "start" => frame.lang = (IF PathHasFr THEN "fr" ELSE "en")
       /\ JustLoaded =>
            frame.tree = Skeleton(args.base_xml_path[2],
                                  args.base_xml_path[3] = "_spatial", args.placeholders)

\* A record with the language " Fra " and a spatial type, no path passed:
\* the language is "fr" and the tree is the French spatial skeleton.
C21_Witness ==
  /\ JustLoaded
  /\ args.base_xml_path = NoPath
  /\ LanguageField = Str(<<" ", "F", "r", "a", " ">>)
  /\ SpatialFlag
  /\ frame.lang = "fr"
  /\ frame.tree = Skeleton("fr", TRUE, args.placeholders)
  /\ frame.tree # Skeleton("en", TRUE, args.placeholders)
  /\ frame.tree # Skeleton("fr", FALSE, args.placeholders)

\* ---------------------------------------------------------------------
\* C22: the roles of the two sources
\* ---------------------------------------------------------------------

\* What the applied entry reads at its default source and at its French
\* source, as a primary and as a secondary value.
AtDefault(field) == Extract(args.record, field, FieldGet(field, "source")).val

AtFrench(field) == Extract(args.record, field, FieldGet(field, "source_fr")).val

\* The applied entry has a French source.
HasFrench(field) == Truthy(FieldGet(field, "source_fr"))

\* C22: the values an entry passes on are, in a French document, the one
\* at its French source as primary and the one at its default source as
\* secondary when it has a French source, and the one at its default
\* source with no secondary when it has none; in an English document the
\* one at its default source as primary and the one at its French source,
\* when it has one, as secondary.
C22_RolesSwap ==
  Applied # 0 =>
    LET field == args.mapping[Applied]
    IN IF frame.lang = "fr" /\ HasFrench(field)
       THEN /\ frame.value = AtFrench(field)
            /\ frame.secondary =
                 (IF Truthy(FieldGet(field, "source")) THEN AtDefault(field) ELSE None)
       ELSE IF frame.lang = "fr"
       THEN frame.value = AtDefault(field) /\ frame.secondary = None
       ELSE /\ frame.value = AtDefault(field)
            /\ frame.secondary = (IF HasFrench(field) THEN AtFrench(field) ELSE None)

\* A French record with "zz" at "a" and "f" at "b": the title entry
\* passes "f" as primary and "zz" as secondary, and the title reads "f".
C22_Witness ==
  /\ Applied = 1
  /\ args.mapping[1] = E_title
  /\ frame.lang = "fr"
  /\ DictGet(args.record, <<"a">>) = Str(S_zz)
  /\ DictGet(args.record, <<"b">>) = Str(<<"f">>)
  /\ frame.value = Str(<<"f">>)
  /\ frame.secondary = Str(S_zz)
  /\ NodeAt(frame.tree, <<4, 1>>).text = <<"f">>
  /\ NodeAt(frame.tree, <<4, 2, 1>>).text = S_zz

---------------------------------------------------------------------------
(* C23 *)

\* The greatest member of a non-empty set of positions.
Last(S) == CHOOSE k \in S : \A j \in S : j <= k

\* The item records an id reads: those of that id that have a name node.
ItemsOf(items, id) ==
  {k \in 1..Len(items) : id # <<>> /\ items[k].id = id /\ items[k].names # <<>>}

\* The display name an id reads: the trimmed first name of the last item
\* record of that id, <<>> when there is none.
NameOfId(items, id) ==
  IF ItemsOf(items, id) = {} THEN <<>>
  ELSE Strip(items[Last(ItemsOf(items, id))].names[1])

\* The item references of a class record that read an item of that name.
RefsNamed(items, hrefs, name) ==
  {j \in 1..Len(hrefs) :
     /\ hrefs[j] # <<>>
     /\ name # <<>>
     /\ NameOfId(items, Remove(hrefs[j], "#")) = name}

\* The class records of an id.
ClassesOf(classes, id) == {k \in 1..Len(classes) : classes[k].id = id}

\* The id a name stands for in a class: that of the last reference of the
\* last class record of the id that reads an item of that name.
IdIn(items, classes, id, name) ==
  IF ClassesOf(classes, id) = {} THEN None
  ELSE LET hrefs == classes[Last(ClassesOf(classes, id))].hrefs
           refs == RefsNamed(items, hrefs, name)
       IN IF refs = {} THEN None
          ELSE Str(Remove(hrefs[Last(refs)], "#"))

\* The names of the items of a register document.
NamesOf(items) == {NameOfId(items, items[k].id) : k \in 1..Len(items)} \ {<<>>}

\* The table of a dict of str: its (key, value) pairs.
PairsOf(d) == {<<d.ks[i], d.xs[i]>> : i \in 1..Len(d.ks)}

\* The class of a call, and the token its display text is looked up by.
AskedClass == ClassId(args.class.s)

AskedToken == Strip(Split(args.display.s, ";")[1])

\* The ids the records of the asked class refer to.
Referenced ==
  UNION {{Str(Remove(args.classes[k].hrefs[j], "#")) :
            j \in 1..Len(args.classes[k].hrefs)} :
           k \in ClassesOf(args.classes, AskedClass)}

\* C23 as stated: for each item reference of a class record c that reads an
\* item record with a display name, resolve_codelist_value("...#c", that
\* display name) returns the id of the item, and no id is returned that c
\* does not refer to.
C23_EveryItemResolves ==
  pc = "returned" =>
    /\ \A k \in ClassesOf(args.classes, AskedClass) :
         \A j \in 1..Len(args.classes[k].hrefs) :
           \A i \in ItemsOf(args.items, Remove(args.classes[k].hrefs[j], "#")) :
             (/\ args.classes[k].hrefs[j] # <<>>
              /\ Strip(args.items[i].names[1]) # <<>>
              /\ args.display.s = Strip(args.items[i].names[1]))
             => ret.val = Str(args.items[i].id)
    /\ ret.val = None \/ ret.val \in Referenced

\* C23, as the code has it: after the import, the table of a class id holds,
\* for each display name, the id of the last item reference of the last class
\* record of that id that reads an item of that name (the item of an id being
\* its last record with a name node, the name its trimmed first name);
\* resolve_codelist_value("...#c", text) returns the id the table of c holds
\* for the trimmed part of the text before its first ";", None when it holds
\* none, and never an id c does not refer to.
C23_LastReferenceResolves ==
  /\ pc \in {"built", "returned"} =>
       \A k \in 1..Len(args.classes) :
         PairsOf(DictGet(frame, args.classes[k].id))
           = {<<name, IdIn(args.items, args.classes, args.classes[k].id, name)>> :
                name \in {n \in NamesOf(args.items) :
                            IdIn(args.items, args.classes, args.classes[k].id, n) # None}}
  /\ pc = "returned" =>
       /\ ret.exc = ""
       /\ ret.val = IdIn(args.items, args.classes, AskedClass, AskedToken)
       /\ ret.val = None \/ ret.val \in Referenced

\* Two items named "completed", both referred to by IC_106: "completed"
\* resolves to the second, RI_602.
C23_Witness ==
  /\ pc = "returned"
  /\ args.items = <<[id |-> <<"RI_596">>, names |-> <<S_completed>>],
                    [id |-> <<"RI_602">>, names |-> <<S_completed>>]>>
  /\ args.classes[1].hrefs = <<<<"#", "RI_596">>, <<"#", "RI_602">>>>
  /\ args.classes[2].id = <<"IC_95">>
  /\ AskedClass = <<"IC_106">>
  /\ args.display = Str(S_completed)
  /\ ret.val = Str(<<"RI_602">>)

====
